---- MODULE Spec2Model ----
(***************************************************************************)
(* Model of the resolver package of dns-tester-go: RunQueries (the fan-out *)
(* over the target servers, gated by the pool semaphore), QueryServer (the *)
(* per-target retry loop) and performQuery (one exchange raced against the *)
(* context).  Every goroutine is a process; a step of the model is one     *)
(* access to state shared between goroutines (the context, the pool, the   *)
(* wait group, the mutex, the result map, a result channel) together with  *)
(* the goroutine-local code around it.  QSSpec is the same machine run on  *)
(* one server, with its tags and with every response message; TargetSpec   *)
(* follows one target string through GetDNSProtocolFromTarget and through  *)
(* the normalization done on the way to the task queue.  ApiSpec is the    *)
(* API server from the loading of its configuration to its answers to      *)
(* lookup submissions and health checks; MemSpec and MemLiveSpec are the   *)
(* in-memory task client with its background goroutines; AsynqSpec is the  *)
(* Asynq client, the queue and the worker's task handler; StatusSpec is    *)
(* Client.GetTaskStatus over every content of cache and queue; CeilingSpec *)
(* and OrphanSpec are RunQueries with the configured ceiling and with the  *)
(* abandoned exchange goroutines scheduled; CliSpec is the poll loop of    *)
(* the CLI command.                                                        *)
(***************************************************************************)
EXTENDS Integers, Sequences, FiniteSets, TLC

\* ------------------------------------------------------------------ bounds
MaxTargets == 2        \* longest server list handed to RunQueries
MaxRetries == 3        \* largest retry count handed to RunQueries
MaxConcurrent == 2     \* largest maxConcurrentQueries handed to RunQueries
MaxAttempts == 4       \* largest len(servers) * maxRetries of one call
MaxRcode == 7          \* largest response code a server answers with

\* --------------------------------------------------------- external tables
\* Target strings handed to RunQueries; the last one has a scheme that
\* upstream.AddressToUpstream rejects.
GoodTargets == {"udp://9.9.9.9:53", "tls://dns.quad9.net:853"}
AllTargets == GoodTargets \cup {"bogus://x"}

\* upstream.AddressToUpstream(normalizedTarget, opts) returns an upstream.
AddressToUpstreamOK(target) == target \in GoodTargets

\* miekg/dns StringToType, restricted to the names used here (0 is no type).
StringToType == [s \in {"A", "AAAA", "MX"} |->
                   CASE s = "A" -> 1 [] s = "AAAA" -> 28 [] s = "MX" -> 15]

\* Record-type strings a caller passes: a known name in lower case (an upper
\* case name takes the same path from stringToQType on), an unknown name and
\* the empty string.
QTypeInputs == {"a", "BOGUS", ""}

\* strings.ToUpper on the strings used here.
ToUpper(s) == CASE s = "a" -> "A"
                [] s = "aaaa" -> "AAAA"
                [] s = "mx" -> "MX"
                [] OTHER -> s

\* stringToQType: the type code, or 0 with an error.
stringToQType_AcceptAll(qt) ==
  IF ToUpper(qt) \in DOMAIN StringToType THEN StringToType[ToUpper(qt)] ELSE 1

stringToQType(qt) ==
  IF ToUpper(qt) \in DOMAIN StringToType THEN StringToType[ToUpper(qt)] ELSE 0

\* ----------------------------------------------------------------- strings
\* A Go string is a TLA+ string; s[k-1] is Char(s, k).
Char(s, k) == SubSeq(s, k, k)

LowerLetters == "abcdefghijklmnopqrstuvwxyz"
UpperLetters == "ABCDEFGHIJKLMNOPQRSTUVWXYZ"
Digits == "0123456789"

Contains(s, c) == \E k \in 1 .. Len(s) : Char(s, k) = c

\* strings.Index / strings.LastIndex for a one-character c, counted from 1
\* (0 stands for Go's -1).
Index(s, c) ==
  IF Contains(s, c)
    THEN CHOOSE k \in 1 .. Len(s) :
           Char(s, k) = c /\ \A j \in 1 .. k - 1 : Char(s, j) # c
    ELSE 0

LastIndex(s, c) ==
  IF Contains(s, c)
    THEN CHOOSE k \in 1 .. Len(s) :
           Char(s, k) = c /\ \A j \in k + 1 .. Len(s) : Char(s, j) # c
    ELSE 0

HasPrefix(s, p) == Len(p) <= Len(s) /\ SubSeq(s, 1, Len(p)) = p

AllDigits(s) == \A k \in 1 .. Len(s) : Contains(Digits, Char(s, k))

\* strings.ToLower on ASCII text.
LowerChar(c) ==
  IF Contains(UpperLetters, c) THEN Char(LowerLetters, Index(UpperLetters, c))
  ELSE c

RECURSIVE ToLower(_)
ToLower(s) == IF s = "" THEN "" ELSE LowerChar(Head(s)) \o ToLower(Tail(s))

\* ---------------------------------------------------------------- net/url
\* getScheme of net/url: the scan for "scheme:" at the head of rawURL.
SchemeChar(c, k) ==
  \/ Contains(LowerLetters, c)
  \/ Contains(UpperLetters, c)
  \/ k > 1 /\ (Contains(Digits, c) \/ c \in {"+", "-", "."})

getScheme(rawURL) ==
  LET n == Len(rawURL)
      stops == { k \in 1 .. n : ~SchemeChar(Char(rawURL, k), k) }
      stop == IF stops = {} THEN 0
              ELSE CHOOSE k \in stops : \A j \in stops : k <= j
  IN IF stop = 0 \/ Char(rawURL, stop) # ":"
       THEN [scheme |-> "", rest |-> rawURL, err |-> FALSE]
       ELSE IF stop = 1
         THEN [scheme |-> "", rest |-> "", err |-> TRUE]
         ELSE [scheme |-> SubSeq(rawURL, 1, stop - 1),
               rest |-> SubSeq(rawURL, stop + 1, n), err |-> FALSE]

\* validOptionalPort of net/url: "" or ":" followed by digits.
validOptionalPort(port) ==
  port = "" \/ (Head(port) = ":" /\ AllDigits(Tail(port)))

\* parseHost of net/url on hosts without percent escapes.
parseHostOK(host) ==
  IF HasPrefix(host, "[")
    THEN /\ Contains(host, "]")
         /\ validOptionalPort(
              SubSeq(host, LastIndex(host, "]") + 1, Len(host)))
    ELSE \/ ~Contains(host, ":")
         \/ validOptionalPort(
              SubSeq(host, LastIndex(host, ":"), Len(host)))

\* url.Parse on strings without control bytes, '#', '?', '@' and '%': the
\* scheme in lower case, or an error.
urlParse(rawURL) ==
  LET s == getScheme(rawURL)
      rest == s.rest
      slash == Index(rest, "/")
      segment == IF slash = 0 THEN rest ELSE SubSeq(rest, 1, slash - 1)
      after == SubSeq(rest, 3, Len(rest))
      end == Index(after, "/")
      authority == IF end = 0 THEN after ELSE SubSeq(after, 1, end - 1)
      Failed == [Scheme |-> "", err |-> TRUE]
      Parsed == [Scheme |-> ToLower(s.scheme), err |-> FALSE]
  IN IF s.err THEN Failed
     ELSE IF ~HasPrefix(rest, "/")
       THEN IF s.scheme # "" THEN Parsed
            ELSE IF Contains(segment, ":") THEN Failed ELSE Parsed
       ELSE IF HasPrefix(rest, "//") /\
               (s.scheme # "" \/ ~HasPrefix(rest, "///"))
         THEN IF parseHostOK(authority) THEN Parsed ELSE Failed
         ELSE Parsed

\* ------------------------------------------------------- package normalize
\* normalize.ProtocolConfigs: the supported schemes.
ProtocolConfigs ==
  [ s \in {"udp", "tcp", "tls", "https", "quic"} |->
      [ Scheme |-> s,
        DisplayName |-> CASE s \in {"udp", "tcp"} -> "Do53"
                          [] s = "tls" -> "DoT"
                          [] s = "https" -> "DoH"
                          [] s = "quic" -> "DoQ",
        DefaultPort |-> CASE s \in {"udp", "tcp"} -> 53
                          [] s \in {"tls", "quic"} -> 853
                          [] s = "https" -> 443,
        UsesHostname |-> s \in {"tls", "https", "quic"} ] ]

\* strconv.Atoi on a string of digits.
RECURSIVE Atoi(_)
Atoi(s) ==
  IF s = "" THEN 0
  ELSE 10 * Atoi(SubSeq(s, 1, Len(s) - 1)) + Index(Digits, Char(s, Len(s))) - 1

\* Position of the first "://" in s, 0 when there is none.
SchemeSep(s) ==
  LET at == { k \in 1 .. Len(s) - 2 : SubSeq(s, k, k + 2) = "://" }
  IN IF at = {} THEN 0 ELSE CHOOSE k \in at : \A j \in at : k <= j

\* A literal IP address: a bracketed IPv6 literal or dotted digits.
IsLiteralIP(host) ==
  \/ HasPrefix(host, "[") /\ Char(host, Len(host)) = "]" /\ Len(host) > 2
  \/ host # "" /\ \A k \in 1 .. Len(host) :
                     Contains(Digits, Char(host, k)) \/ Char(host, k) = "."

\* normalize.Target: the canonical scheme://host:port of a target string,
\* or an error (UnsupportedScheme, MalformedInput, InvalidPort).
Target(rawTarget) ==
  LET sep == SchemeSep(rawTarget)
      scheme == SubSeq(rawTarget, 1, sep - 1)
      rest == SubSeq(rawTarget, sep + 3, Len(rawTarget))
      close == Index(rest, "]")
      colon == Index(rest, ":")
      bracketed == HasPrefix(rest, "[")
      host == IF bracketed THEN SubSeq(rest, 1, close)
              ELSE IF colon = 0 THEN rest ELSE SubSeq(rest, 1, colon - 1)
      tail == SubSeq(rest, Len(host) + 1, Len(rest))
      digits == SubSeq(tail, 2, Len(tail))
      port == IF tail = "" THEN ProtocolConfigs[scheme].DefaultPort
              ELSE Atoi(digits)
      Fail(kind) == [err |-> kind, value |-> ""]
  IN IF sep = 0 \/ scheme \notin DOMAIN ProtocolConfigs
       THEN Fail("UnsupportedScheme")
     ELSE IF host = "" \/ (bracketed /\ ~IsLiteralIP(host))
       THEN Fail("MalformedInput")
     ELSE IF ~ProtocolConfigs[scheme].UsesHostname /\ ~IsLiteralIP(host)
       THEN Fail("MalformedInput")
     ELSE IF tail # "" /\ (Head(tail) # ":" \/ digits = "" \/ ~AllDigits(digits))
       THEN Fail("InvalidPort")
     ELSE IF port < 1 \/ port > 65535
       THEN Fail("InvalidPort")
     ELSE [err |-> "",
           value |-> scheme \o "://" \o host \o ":" \o ToString(port)]

\* DNSTarget{Target: norm, ...} appended by GetDNSTargets.
ConfigTarget_Raw(rawTarget, norm) == rawTarget

ConfigTarget(rawTarget, norm) == norm

\* Target strings: a scheme, a separator, a host and a port part.
SchemeInputs ==
  { "udp", "tcp", "tls", "https", "quic", "UDP", "Tls", "h3", "bogus", "",
    "9udp", "u_dp" }
HostInputs == { "9.9.9.9", "dns.quad9.net", "[2620:fe::fe]", "" }
PortInputs == { "", ":53", ":853", ":443", ":8053", ":0", ":65536", ":5x" }

TargetInputs ==
  { s \o sep \o h \o p : s \in SchemeInputs, sep \in {"://", ":", ""},
                         h \in HostInputs, p \in PortInputs \cup {":"} }

\* The target strings handed to normalize.Target: lower-case schemes, the
\* port absent or given.
NormalizeInputs ==
  { s \o "://" \o h \o p :
      s \in { "udp", "tcp", "tls", "https", "quic", "h3", "bogus", "" },
      h \in HostInputs, p \in PortInputs } \cup
  { h \o p : h \in HostInputs, p \in PortInputs }

\* GetDNSProtocolFromTarget: the display name of the target's scheme.
GetDNSProtocolFromTarget_EchoScheme(target) ==
  LET u == urlParse(target)
  IN IF u.err \/ u.Scheme = "" THEN "Unknown"
     ELSE IF u.Scheme \in DOMAIN ProtocolConfigs
       THEN ProtocolConfigs[u.Scheme].DisplayName
       ELSE u.Scheme

GetDNSProtocolFromTarget(target) ==
  LET u == urlParse(target)
  IN IF u.err \/ u.Scheme = "" THEN "Unknown"
     ELSE IF u.Scheme \in DOMAIN ProtocolConfigs
       THEN ProtocolConfigs[u.Scheme].DisplayName
       ELSE "Unknown"

\* ---------------------------------------------------------- DNS messages
\* RCodeMapping; a Go map yields "" for a key it does not hold.
RCodeMapping_NameErrorMissing ==
  [ c \in {0, 1, 2, 4, 5} |-> CASE c = 0 -> "NOERROR"
                               [] c = 1 -> "FORMERR"
                               [] c = 2 -> "SERVFAIL"
                               [] c = 4 -> "NOTIMP"
                               [] c = 5 -> "REFUSED" ]

RCodeMapping ==
  [ c \in 0 .. 5 |-> CASE c = 0 -> "NOERROR"
                      [] c = 1 -> "FORMERR"
                      [] c = 2 -> "SERVFAIL"
                      [] c = 3 -> "NXDOMAIN"
                      [] c = 4 -> "NOTIMP"
                      [] c = 5 -> "REFUSED" ]

MapLookup(m, k) == IF k \in DOMAIN m THEN m[k] ELSE ""

\* result.RCode = RCodeMapping[response.Rcode], "UNKNOWN(%d)" when empty.
RCodeText_NoFallback(rcode) == MapLookup(RCodeMapping, rcode)

RCodeText(rcode) ==
  IF MapLookup(RCodeMapping, rcode) = ""
    THEN "UNKNOWN(" \o ToString(rcode) \o ")"
    ELSE MapLookup(RCodeMapping, rcode)

\* strings.TrimSuffix(s, ".")
TrimDot(s) ==
  IF s # "" /\ Char(s, Len(s)) = "." THEN SubSeq(s, 1, Len(s) - 1) ELSE s

\* Resource records of an answer section, the type given by its name in
\* dns.TypeToString: an A record, a CNAME record and a record of a type
\* QueryServer has no case for.
rrA == [Name |-> "example.com.", Rrtype |-> "A", Rdata |-> "192.0.2.1"]
rrCNAME ==
  [Name |-> "www.example.com.", Rrtype |-> "CNAME", Rdata |-> "example.com."]
rrHINFO == [Name |-> "example.com.", Rrtype |-> "HINFO", Rdata |-> "cpu os"]

\* rr.String() of miekg/dns: the record in presentation form.
rrString(rr) == rr.Name \o "\tIN\t" \o rr.Rrtype \o "\t" \o rr.Rdata

\* The body of the loop over response.Answer: one DNSAnswer per record.
decodeRR(rr) ==
  [ Name |-> TrimDot(rr.Name),
    Type |-> rr.Rrtype,
    Value |-> CASE rr.Rrtype = "A" -> rr.Rdata
                [] rr.Rrtype = "CNAME" -> TrimDot(rr.Rdata)
                [] OTHER -> rrString(rr) ]

\* result.Answers after the loop over response.Answer: every iteration
\* appends its DNSAnswer.
decodeAnswers_DropDefault(section) ==
  LET known == SelectSeq(section, LAMBDA rr : rr.Rrtype \in {"A", "CNAME"})
  IN [ k \in 1 .. Len(known) |-> decodeRR(known[k]) ]

decodeAnswers(section) == [ k \in 1 .. Len(section) |-> decodeRR(section[k]) ]

\* Answer sections of the responses: empty, one record, and a CNAME chain
\* followed by a record without a case of its own.
AnswerSections == { << >>, << rrA >>, << rrCNAME, rrHINFO >> }

\* The dns.Msg values a server can answer with.
Messages == [ Rcode : 0 .. MaxRcode, Answer : AnswerSections ]

\* The dns.Msg a nil response stands for (never read).
NoMsg == [Rcode |-> 0, Answer |-> << >>]

\* server.Tags of a DNSServer.
TagLists == { << >>, << "eu" >>, << "eu", "primary" >> }

\* ------------------------------------------------------------------- state
VARIABLES
  servers,    \* RunQueries argument: the target strings, in order
  qtype,      \* RunQueries argument: the record-type string
  retries,    \* RunQueries argument maxRetries
  maxConc,    \* RunQueries argument maxConcurrentQueries
  cancelled,  \* ctx.Done() is closed / ctx.Err() != nil
  mpc,        \* position of the RunQueries goroutine
  idx,        \* index of the server the dispatch loop is at
  wg,         \* sync.WaitGroup counter
  pool,       \* number of tokens in the pool channel
  mu,         \* 0, or the worker holding the mutex
  results,    \* the results map: target -> result
  pc,         \* position of each worker goroutine
  attempt,    \* QueryServer's loop variable
  err,        \* QueryServer's local err
  response,   \* QueryServer's local response
  result,     \* QueryServer's local result (status and metrics label)
  hist,       \* what each performQuery call of the worker returned
  delays,     \* number of time.Sleep(RetryDelay) calls of the worker
  exch,       \* the exchange goroutine of the current performQuery call
  resultCh,   \* content of the current call's resultCh
  orphans,    \* exchange goroutines still running that no one waits for
  tags,       \* RunQueries argument: the Tags of each server
  replies,    \* the dns.Msg values the servers of this run answer with
  msg,        \* the dns.Msg QueryServer's response points to
  detail,     \* QueryServer's returned target and the other result fields
  raw,        \* a target string as written in a request or built from config
  cfgTarget,  \* the DNSTarget.Target GetDNSTargets made of it ("": none)
  reqTarget,  \* req.DNSServers[i].Target after processDNSLookup ("": none)
  label,      \* what GetDNSProtocolFromTarget returned ("": not called)
  ppc,        \* how far the handling of the target string has got
  cfgServers, \* cfg.Servers: the servers of the configuration file
  cfgRps,     \* cfg.RateLimiting.RequestsPerSecond
  cfgMaxServers, \* cfg.DNS.MaxServersPerReq
  flagRps,    \* the --rate-limit-rps flag: whether given, and its value
  spc,        \* position of the server command (runServer)
  limiter,    \* the rate-limiter middleware is installed on the router
  mode,       \* the task client of the server: "asynq" or "memory"
  nworkers,   \* workers connected to the queue (inspector.Servers())
  queue,      \* the tasks enqueued by EnqueueDNSLookup: their server lists
  req,        \* the lookup request handled last
  reply,      \* the HTTP response written last
  clock,      \* the wall clock: what time.Now() returns
  ttl,        \* memoryClient.ttl: the task IDs it knows
  mtasks,     \* memoryClient.tasks: task ID -> stored results, or none yet
  gor,        \* the goroutines EnqueueDNSLookup started, in order
  seen,       \* what GetTaskStatus returned last for each task ID asked
  astate,     \* Asynq's queue: the state of each task ("none": no such task)
  retried,    \* Asynq's count of the retries of each task
  redis,      \* the Redis keys written by this program, with their values
  written,    \* the tasks whose result went to Asynq's ResultWriter
  handler,    \* which handleTask the worker runs
  astatus,    \* what Client.GetTaskStatus returned last for each task ID
  cpc,        \* position of the CLI command (runDNSTest)
  answers,    \* what the API answered to each status poll of the CLI
  sleeps      \* number of time.Sleep(DefaultPollInterval) calls of the CLI

vars == << servers, qtype, retries, maxConc, cancelled, mpc, idx, wg, pool,
           mu, results, pc, attempt, err, response, result, hist, delays,
           exch, resultCh, orphans, tags, replies, msg, detail, raw,
           cfgTarget, reqTarget, label, ppc, cfgServers, cfgRps,
           cfgMaxServers, flagRps, spc, limiter, mode, nworkers, queue, req,
           reply, clock, ttl, mtasks, gor, seen, astate, retried, redis,
           written, handler, astatus, cpc, answers, sleeps >>

mainVars == << mpc, idx, wg, pool >>
targetVars == << raw, cfgTarget, reqTarget, label, ppc >>
apiVars ==
  << cfgServers, cfgRps, cfgMaxServers, flagRps, spc, limiter, mode, nworkers,
     queue, req, reply >>
memVars == << clock, ttl, mtasks, gor, seen >>
asynqVars == << astate, retried, redis, written, handler, astatus >>
cliVars == << cpc, answers, sleeps >>
svcVars == << apiVars, memVars, asynqVars, cliVars >>
argVars ==
  << servers, qtype, retries, maxConc, tags, replies, targetVars, svcVars >>

\* Everything a RunQueries call reads or writes.
runVars ==
  << servers, qtype, retries, maxConc, tags, replies, cancelled, mainVars, mu,
     results, pc, attempt, err, response, msg, result, detail, hist, delays,
     exch, resultCh, orphans >>
callVars == << runVars, svcVars >>

\* What up.Exchange(msg) can hand back: (resp, err).
ExchangeResults ==
  { [resp |-> "msg", msg |-> m, err |-> FALSE] : m \in replies } \cup
  { [resp |-> "nil", msg |-> NoMsg, err |-> TRUE],
    [resp |-> "nil", msg |-> NoMsg, err |-> FALSE] }

Workers == 1 .. Len(servers)

NoResult == [status |-> "", class |-> ""]
ErrorResult(class) == [status |-> "error", class |-> class]
OKResult == [status |-> "ok", class |-> ""]

\* The zero DNSLookupResult (besides the status), no target returned yet.
NoDetail ==
  [ Target |-> "", Tags |-> << >>, DNSProtocol |-> "", Error |-> "",
    RCode |-> "", Answers |-> << >> ]

\* GetDNSProtocolFromTarget(server.Target) for each target handed to
\* RunQueries.
TargetLabels == [ t \in AllTargets |-> GetDNSProtocolFromTarget(t) ]

\* result := models.DNSLookupResult{Tags: ..., DNSProtocol: ...}
Constructed_NoTags(server, serverTags) ==
  [ NoDetail EXCEPT !.DNSProtocol = TargetLabels[server] ]

Constructed(server, serverTags) ==
  [ NoDetail EXCEPT !.Tags = serverTags,
                    !.DNSProtocol = TargetLabels[server] ]

\* result.Error = ...; return server.Target, result
ErrorDetail_NoMessage(d, server, message) == [ d EXCEPT !.Target = server ]

ErrorDetail(d, server, message) ==
  [ d EXCEPT !.Target = server, !.Error = message ]

\* err.Error() of the errors performQuery returns.
ErrText(e) ==
  CASE e = "upstream" -> "failed to create upstream: unsupported scheme"
    [] e = "exchange" -> "DNS query failed: i/o timeout"
    [] e = "cancelled" -> "query cancelled: context canceled"
    [] OTHER -> ""

CancelledDetail(d, server) ==
  ErrorDetail(d, server, "context cancelled: context canceled")

SeqsUpTo(S, n) == UNION { [1 .. k -> S] : k \in 0 .. n }

\* The two resolvable targets are interchangeable: of two server lists that
\* differ by swapping them only the one naming the udp target first is kept.
FirstUdp(s) ==
  \A j \in 1 .. Len(s) :
    s[j] = "tls://dns.quad9.net:853" =>
      \E k \in 1 .. j - 1 : s[k] = "udp://9.9.9.9:53"

ServerLists == { s \in SeqsUpTo(AllTargets, MaxTargets) : FirstUdp(s) }

\* The state at the call of RunQueries, its arguments apart.
CallStart ==
  /\ cancelled = FALSE
  /\ mpc = "loop"
  /\ idx = 1
  /\ wg = 0
  /\ pool = 0
  /\ mu = 0
  /\ results = << >>
  /\ pc = [i \in Workers |-> "idle"]
  /\ attempt = [i \in Workers |-> 0]
  /\ err = [i \in Workers |-> "nil"]
  /\ response = [i \in Workers |-> "nil"]
  /\ result = [i \in Workers |-> NoResult]
  /\ hist = [i \in Workers |-> << >>]
  /\ delays = [i \in Workers |-> 0]
  /\ exch = [i \in Workers |-> "none"]
  /\ resultCh = [i \in Workers |-> << >>]
  /\ orphans = [i \in Workers |-> 0]
  /\ msg = [i \in Workers |-> NoMsg]
  /\ detail = [i \in Workers |-> NoDetail]

\* No target string is being handled outside the call.
NoTarget ==
  /\ raw = ""
  /\ cfgTarget = ""
  /\ reqTarget = ""
  /\ label = ""
  /\ ppc = "off"

\* No request has been handled and no response written.
NoRequest == [valid |-> TRUE, servers |-> << >>]
NoReply == [op |-> "none", code |-> 0, status |-> ""]

\* No in-memory task client is in use.
NoMemoryClient ==
  /\ clock = 0
  /\ ttl = {}
  /\ mtasks = << >>
  /\ gor = << >>
  /\ seen = << >>

\* No Asynq client and no worker is in use.
NoAsynqClient ==
  /\ astate = << >>
  /\ retried = << >>
  /\ redis = << >>
  /\ written = {}
  /\ handler = ""
  /\ astatus = << >>

\* No CLI command is running.
NoCli ==
  /\ cpc = "off"
  /\ answers = << >>
  /\ sleeps = 0

\* No server command is running.
NoServer ==
  /\ cfgServers = << >>
  /\ cfgRps = 0
  /\ cfgMaxServers = 0
  /\ flagRps = [changed |-> FALSE, value |-> 0]
  /\ spc = "off"
  /\ limiter = FALSE
  /\ mode = "memory"
  /\ nworkers = 0
  /\ queue = << >>
  /\ req = NoRequest
  /\ reply = NoReply

\* RunQueries over up to MaxTargets servers without tags that answer
\* NOERROR with one A record.
Init ==
  /\ servers \in ServerLists
  /\ qtype \in QTypeInputs
  /\ retries \in 0 .. MaxRetries
  /\ Len(servers) * retries <= MaxAttempts
  /\ maxConc \in 1 .. MaxConcurrent
  /\ tags = [i \in Workers |-> << >>]
  /\ replies = { [Rcode |-> 0, Answer |-> << rrA >>] }
  /\ CallStart
  /\ NoCli
  /\ NoTarget
  /\ NoServer
  /\ NoMemoryClient
  /\ NoAsynqClient

\* RunQueries over one server, with any tags, that answers with any message.
QSInit ==
  /\ servers \in { << t >> : t \in AllTargets }
  /\ qtype \in QTypeInputs
  /\ retries \in 0 .. MaxRetries
  /\ maxConc = 1
  /\ tags \in [Workers -> TagLists]
  /\ replies = Messages
  /\ CallStart
  /\ NoCli
  /\ NoTarget
  /\ NoServer
  /\ NoMemoryClient
  /\ NoAsynqClient

\* The same call with any retry count a caller of QueryServer can pass, a
\* negative one included.
RetryInit ==
  /\ servers \in { << t >> : t \in AllTargets }
  /\ qtype \in QTypeInputs
  /\ retries \in -1 .. MaxRetries
  /\ maxConc = 1
  /\ tags \in [Workers -> TagLists]
  /\ replies = Messages
  /\ CallStart
  /\ NoCli
  /\ NoTarget
  /\ NoServer
  /\ NoMemoryClient
  /\ NoAsynqClient

\* One target string on its way from a request or the configuration to the
\* task queue; no RunQueries call.
TargetInit ==
  /\ raw \in TargetInputs
  /\ cfgTarget = ""
  /\ reqTarget = ""
  /\ label = ""
  /\ ppc = "raw"
  /\ servers = << >>
  /\ qtype = "a"
  /\ retries = 0
  /\ maxConc = 1
  /\ tags = << >>
  /\ replies = {}
  /\ CallStart
  /\ NoCli
  /\ NoServer
  /\ NoMemoryClient
  /\ NoAsynqClient

\* The caller cancels the context handed to RunQueries.
Cancel ==
  /\ ~cancelled
  /\ cancelled' = TRUE
  /\ UNCHANGED << argVars, mainVars, mu, results, pc, attempt, err,
                  response, msg, result, detail, hist, delays, exch,
                  resultCh, orphans >>


\* ------------------------------------------------- RunQueries, main goroutine
\* pool <- struct{}{} proceeds only while the channel has a free place.
PoolHasRoom_Unbounded == TRUE

PoolHasRoom == pool < maxConc

\* wg.Wait() returns once the counter is zero.
WaitDone_Early == TRUE

WaitDone == wg = 0

\* for _, server := range servers { wg.Add(1) ...
M_Add ==
  /\ mpc = "loop"
  /\ idx <= Len(servers)
  /\ wg' = wg + 1
  /\ mpc' = "send"
  /\ UNCHANGED << argVars, cancelled, idx, pool, mu, results, pc, attempt,
                  err, response, msg, result, detail, hist, delays,
                  exch, resultCh, orphans >>

\* ... pool <- struct{}{}; go func(srv) {...}(server) }
M_Send ==
  /\ mpc = "send"
  /\ PoolHasRoom
  /\ pool' = pool + 1
  /\ pc' = [pc EXCEPT ![idx] = "start"]
  /\ idx' = idx + 1
  /\ mpc' = "loop"
  /\ UNCHANGED << argVars, cancelled, wg, mu, results, attempt, err,
                  response, msg, result, detail, hist, delays, exch,
                  resultCh, orphans >>

\* The range loop is over: the main goroutine reaches wg.Wait().
M_LoopEnd ==
  /\ mpc = "loop"
  /\ idx > Len(servers)
  /\ mpc' = "wait"
  /\ UNCHANGED << argVars, cancelled, idx, wg, pool, mu, results, pc,
                  attempt, err, response, msg, result, detail, hist,
                  delays, exch, resultCh, orphans >>

\* wg.Wait(); return results
M_Wait ==
  /\ mpc = "wait"
  /\ WaitDone
  /\ mpc' = "returned"
  /\ UNCHANGED << argVars, cancelled, idx, wg, pool, mu, results, pc,
                  attempt, err, response, msg, result, detail, hist,
                  delays, exch, resultCh, orphans >>

\* ------------------------------------------------------------- QueryServer
\* The code after the retry loop: err, then a nil response, then success.
AfterLoop_NilIsFailure(e, r) ==
  IF e # "nil" \/ r = "nil" THEN ErrorResult("query_failed") ELSE OKResult

AfterLoop(e, r) ==
  IF e # "nil" THEN ErrorResult("query_failed")
  ELSE IF r = "nil" THEN ErrorResult("no_response")
  ELSE OKResult

\* The same code, for the fields of the result besides the status.
AfterLoopDetail(d, server, e, r, m) ==
  IF e # "nil" THEN ErrorDetail(d, server, "query failed: " \o ErrText(e))
  ELSE IF r = "nil" THEN ErrorDetail(d, server, "no response received")
  ELSE [ d EXCEPT !.Target = server,
                  !.RCode = RCodeText(m.Rcode),
                  !.Answers = decodeAnswers(m.Answer) ]

\* select { case <-ctx.Done(): ... default: } at the head of the loop body.
LoopCtxDone_Never == FALSE

LoopCtxDone == cancelled

\* ctx.Err() != nil after a failed attempt.
PostCtxErr_Never == FALSE

PostCtxErr == cancelled

\* attempt < retries-1: a retry delay follows the failed attempt.
SleepBeforeRetry_Always(a) == TRUE

SleepBeforeRetry(a) == a < retries - 1

\* if err == nil && response != nil { break }
BreakCond_Never(e, r) == FALSE

BreakCond_NoError(e, r) == e = "nil"

BreakCond(e, r) == e = "nil" /\ r # "nil"

\* The loop condition attempt < retries.
LoopCond_OneShort(a) == a < retries - 1

LoopCond(a) == a < retries

\* stringToQType(qtype) and the early return on its error.
QS_Start(i) ==
  /\ pc[i] = "start"
  /\ IF stringToQType(qtype) = 0
       THEN /\ result' = [result EXCEPT ![i] = ErrorResult("invalid_qtype")]
            /\ detail' = [detail EXCEPT ![i] =
                 ErrorDetail(Constructed(servers[i], tags[i]), servers[i],
                             "unsupported query type: " \o qtype)]
            /\ pc' = [pc EXCEPT ![i] = "lock"]
       ELSE /\ pc' = [pc EXCEPT ![i] = "loop"]
            /\ detail' = [detail EXCEPT
                            ![i] = Constructed(servers[i], tags[i])]
            /\ UNCHANGED result
  /\ UNCHANGED << argVars, cancelled, mainVars, mu, results, attempt, err,
                  response, msg, hist, delays, exch, resultCh, orphans >>

\* The loop condition, then the non-blocking check of ctx.Done().
QS_Loop(i) ==
  /\ pc[i] = "loop"
  /\ IF LoopCond(attempt[i])
       THEN IF LoopCtxDone
              THEN /\ result' = [result EXCEPT
                                   ![i] = ErrorResult("context_cancelled")]
                   /\ detail' = [detail EXCEPT
                                   ![i] = CancelledDetail(@, servers[i])]
                   /\ pc' = [pc EXCEPT ![i] = "lock"]
              ELSE /\ pc' = [pc EXCEPT ![i] = "perform"]
                   /\ UNCHANGED << result, detail >>
       ELSE /\ result' = [result EXCEPT ![i] = AfterLoop(err[i], response[i])]
            /\ detail' = [detail EXCEPT ![i] =
                 AfterLoopDetail(@, servers[i], err[i], response[i], msg[i])]
            /\ pc' = [pc EXCEPT ![i] = "lock"]
  /\ UNCHANGED << argVars, cancelled, mainVars, mu, results, attempt, err,
                  response, msg, hist, delays, exch, resultCh, orphans >>

\* After performQuery returned: break, return on cancellation, sleep or loop.
QS_After(i) ==
  /\ pc[i] = "post"
  /\ IF BreakCond(err[i], response[i])
       THEN /\ result' = [result EXCEPT ![i] = AfterLoop(err[i], response[i])]
            /\ detail' = [detail EXCEPT ![i] =
                 AfterLoopDetail(@, servers[i], err[i], response[i], msg[i])]
            /\ pc' = [pc EXCEPT ![i] = "lock"]
            /\ UNCHANGED << attempt, delays >>
       ELSE IF PostCtxErr
         THEN /\ result' = [result EXCEPT
                              ![i] = ErrorResult("context_cancelled")]
              /\ detail' = [detail EXCEPT
                              ![i] = CancelledDetail(@, servers[i])]
              /\ pc' = [pc EXCEPT ![i] = "lock"]
              /\ UNCHANGED << attempt, delays >>
         ELSE IF SleepBeforeRetry(attempt[i])
           THEN /\ delays' = [delays EXCEPT ![i] = @ + 1]
                /\ pc' = [pc EXCEPT ![i] = "sleep"]
                /\ UNCHANGED << attempt, result, detail >>
           ELSE /\ attempt' = [attempt EXCEPT ![i] = @ + 1]
                /\ pc' = [pc EXCEPT ![i] = "loop"]
                /\ UNCHANGED << delays, result, detail >>
  /\ UNCHANGED << argVars, cancelled, mainVars, mu, results, err, response,
                  msg, hist, exch, resultCh, orphans >>

\* time.Sleep(RetryDelay) is over; attempt++.
QS_Wake(i) ==
  /\ pc[i] = "sleep"
  /\ attempt' = [attempt EXCEPT ![i] = @ + 1]
  /\ pc' = [pc EXCEPT ![i] = "loop"]
  /\ UNCHANGED << argVars, cancelled, mainVars, mu, results, err, response,
                  msg, result, detail, hist, delays, exch, resultCh,
                  orphans >>

\* ------------------------------------------------------------ performQuery
\* case <-ctx.Done() of the select is ready.
SelectCtxDone_Always == TRUE

SelectCtxDone_Never == FALSE

SelectCtxDone == cancelled

\* AddressToUpstream, then resultCh := make(chan result, 1) and go Exchange.
PQ_Start(i) ==
  /\ pc[i] = "perform"
  /\ IF AddressToUpstreamOK(servers[i])
       THEN /\ exch' = [exch EXCEPT ![i] = "running"]
            /\ resultCh' = [resultCh EXCEPT ![i] = << >>]
            /\ pc' = [pc EXCEPT ![i] = "await"]
            /\ UNCHANGED << err, response, msg, hist >>
       ELSE /\ err' = [err EXCEPT ![i] = "upstream"]
            /\ response' = [response EXCEPT ![i] = "nil"]
            /\ msg' = [msg EXCEPT ![i] = NoMsg]
            /\ hist' = [hist EXCEPT ![i] = Append(@, "err")]
            /\ pc' = [pc EXCEPT ![i] = "post"]
            /\ UNCHANGED << exch, resultCh >>
  /\ UNCHANGED << argVars, cancelled, mainVars, mu, results, attempt,
                  result, detail, delays, orphans >>

\* resultCh := make(chan result, 1): a send proceeds while the buffer has a
\* free place, or when a receiver is waiting.
ResultChCap == 1

SendProceeds_Unbuffered(ch, receiving) == receiving

SendProceeds(ch, receiving) == Len(ch) < ResultChCap \/ receiving

\* The exchange goroutine: up.Exchange(msg) returns, resultCh <- result{...}.
Exchange_Return(i) ==
  /\ exch[i] = "running"
  /\ SendProceeds(resultCh[i], pc[i] = "await")
  /\ \E r \in ExchangeResults :
       resultCh' = [resultCh EXCEPT ![i] = << r >>]
  /\ exch' = [exch EXCEPT ![i] = "sent"]
  /\ UNCHANGED << argVars, cancelled, mainVars, mu, results, pc, attempt,
                  err, response, msg, result, detail, hist, delays,
                  orphans >>

\* An exchange goroutine whose performQuery call has returned: its Exchange
\* returns, it sends into the channel of that call, which holds nothing and
\* has no receiver any more, and ends.
Orphan_Return(i) ==
  /\ orphans[i] > 0
  /\ SendProceeds(<< >>, FALSE)
  /\ orphans' = [orphans EXCEPT ![i] = @ - 1]
  /\ UNCHANGED << argVars, cancelled, mainVars, mu, results, pc, attempt,
                  err, response, msg, result, detail, hist, delays,
                  exch, resultCh >>

\* select: case <-ctx.Done(): return nil, 0, "query cancelled"
PQ_SelectCancel(i) ==
  /\ pc[i] = "await"
  /\ SelectCtxDone
  /\ err' = [err EXCEPT ![i] = "cancelled"]
  /\ response' = [response EXCEPT ![i] = "nil"]
  /\ msg' = [msg EXCEPT ![i] = NoMsg]
  /\ hist' = [hist EXCEPT ![i] = Append(@, "cancelled")]
  /\ orphans' = [orphans EXCEPT
                   ![i] = IF exch[i] = "running" THEN @ + 1 ELSE @]
  /\ exch' = [exch EXCEPT ![i] = "none"]
  /\ resultCh' = [resultCh EXCEPT ![i] = << >>]
  /\ pc' = [pc EXCEPT ![i] = "post"]
  /\ UNCHANGED << argVars, cancelled, mainVars, mu, results, attempt,
                  result, detail, delays >>

\* select: case res := <-resultCh
PQ_SelectResult(i) ==
  /\ pc[i] = "await"
  /\ resultCh[i] # << >>
  /\ LET res == resultCh[i][1] IN
       IF res.err
         THEN /\ err' = [err EXCEPT ![i] = "exchange"]
              /\ response' = [response EXCEPT ![i] = "nil"]
              /\ msg' = [msg EXCEPT ![i] = NoMsg]
              /\ hist' = [hist EXCEPT ![i] = Append(@, "err")]
         ELSE /\ err' = [err EXCEPT ![i] = "nil"]
              /\ response' = [response EXCEPT ![i] = res.resp]
              /\ msg' = [msg EXCEPT ![i] = res.msg]
              /\ hist' = [hist EXCEPT
                            ![i] = Append(@, IF res.resp = "nil" THEN "nil"
                                                               ELSE "ok")]
  /\ exch' = [exch EXCEPT ![i] = "none"]
  /\ resultCh' = [resultCh EXCEPT ![i] = << >>]
  /\ pc' = [pc EXCEPT ![i] = "post"]
  /\ UNCHANGED << argVars, cancelled, mainVars, mu, results, attempt,
                  result, detail, delays, orphans >>

\* ------------------------------------------- RunQueries, worker goroutines
\* mu.Lock() proceeds only while no one holds the mutex.
MutexFree_NoExclusion == TRUE

MutexFree == mu = 0

\* results[target] = result
MapStore_DropErrors(m, k, v) ==
  IF v.status = "error" THEN m
  ELSE [t \in DOMAIN m \cup {k} |-> IF t = k THEN v ELSE m[t]]

MapStore_KeepFirst(m, k, v) ==
  IF k \in DOMAIN m THEN m
  ELSE [t \in DOMAIN m \cup {k} |-> IF t = k THEN v ELSE m[t]]

MapStore(m, k, v) ==
  [t \in DOMAIN m \cup {k} |-> IF t = k THEN v ELSE m[t]]

W_Lock(i) ==
  /\ pc[i] = "lock"
  /\ MutexFree
  /\ mu' = i
  /\ pc' = [pc EXCEPT ![i] = "write"]
  /\ UNCHANGED << argVars, cancelled, mainVars, results, attempt, err,
                  response, msg, result, detail, hist, delays, exch,
                  resultCh, orphans >>

\* results[target] = result; mu.Unlock()
W_Write(i) ==
  /\ pc[i] = "write"
  /\ results' = MapStore(results, detail[i].Target, result[i])
  /\ mu' = 0
  /\ pc' = [pc EXCEPT ![i] = "release"]
  /\ UNCHANGED << argVars, cancelled, mainVars, attempt, err, response, msg,
                  result, detail, hist, delays, exch, resultCh, orphans >>

\* defer func() { <-pool }()
W_Release_Keep(i) ==
  /\ pc[i] = "release"
  /\ pc' = [pc EXCEPT ![i] = "wgdone"]
  /\ UNCHANGED << argVars, cancelled, mpc, idx, wg, pool, mu, results,
                  attempt, err, response, msg, result, detail, hist, delays,
                  exch, resultCh, orphans >>

W_Release(i) ==
  /\ pc[i] = "release"
  /\ pool' = pool - 1
  /\ pc' = [pc EXCEPT ![i] = "wgdone"]
  /\ UNCHANGED << argVars, cancelled, mpc, idx, wg, mu, results, attempt,
                  err, response, msg, result, detail, hist, delays,
                  exch, resultCh, orphans >>

\* defer wg.Done()
W_Done(i) ==
  /\ pc[i] = "wgdone"
  /\ wg' = wg - 1
  /\ pc' = [pc EXCEPT ![i] = "finished"]
  /\ UNCHANGED << argVars, cancelled, mpc, idx, pool, mu, results, attempt,
                  err, response, msg, result, detail, hist, delays,
                  exch, resultCh, orphans >>

\* ------------------------------------------------------------ specification
MainNext == M_Add \/ M_Send \/ M_LoopEnd \/ M_Wait

WorkerNext(i) ==
  \/ QS_Start(i) \/ QS_Loop(i) \/ QS_After(i) \/ QS_Wake(i)
  \/ PQ_Start(i) \/ PQ_SelectCancel(i) \/ PQ_SelectResult(i)
  \/ W_Lock(i) \/ W_Write(i) \/ W_Release(i) \/ W_Done(i)

Next ==
  \/ Cancel
  \/ M_Add
  \/ M_Send
  \/ M_LoopEnd
  \/ M_Wait
  \/ \E i \in Workers : QS_Start(i)
  \/ \E i \in Workers : QS_Loop(i)
  \/ \E i \in Workers : QS_After(i)
  \/ \E i \in Workers : QS_Wake(i)
  \/ \E i \in Workers : PQ_Start(i)
  \/ \E i \in Workers : PQ_SelectCancel(i)
  \/ \E i \in Workers : PQ_SelectResult(i)
  \/ \E i \in Workers : W_Lock(i)
  \/ \E i \in Workers : W_Write(i)
  \/ \E i \in Workers : W_Release(i)
  \/ \E i \in Workers : W_Done(i)
  \/ \E i \in Workers : Exchange_Return(i)
  \/ \E i \in Workers : Orphan_Return(i)

Spec == Init /\ [][Next]_vars

\* One QueryServer call in full: a RunQueries call over a single server.
QSSpec == QSInit /\ [][Next]_vars

\* ------------------------------------------------- handling a target string
\* GetDNSProtocolFromTarget(server.Target)
T_Protocol ==
  /\ ppc = "raw"
  /\ label' = GetDNSProtocolFromTarget(raw)
  /\ ppc' = "labelled"
  /\ UNCHANGED << callVars, raw, cfgTarget, reqTarget >>

\* GetDNSTargets: norm, err := normalize.Target(raw); on an error the
\* service is skipped, else the normalized target is listed.
T_GetDNSTargets ==
  /\ ppc = "raw"
  /\ raw \in NormalizeInputs
  /\ LET n == Target(raw) IN
       IF n.err # ""
         THEN /\ ppc' = "skipped"
              /\ UNCHANGED cfgTarget
         ELSE /\ cfgTarget' = ConfigTarget(raw, n.value)
              /\ ppc' = "config"
  /\ UNCHANGED << callVars, raw, reqTarget, label >>

\* processDNSLookup: the target of the request, or the configured one when
\* the request names none, is normalized before enqueueing; an error is
\* answered with 400.
T_Process ==
  /\ ppc \in {"raw", "config"}
  /\ raw \in NormalizeInputs
  /\ LET n == Target(IF ppc = "config" THEN cfgTarget ELSE raw) IN
       IF n.err # ""
         THEN /\ ppc' = "rejected"
              /\ UNCHANGED reqTarget
         ELSE /\ reqTarget' = n.value
              /\ ppc' = "enqueued"
  /\ UNCHANGED << callVars, raw, cfgTarget, label >>

\* DNSServer.Validate on the enqueued server.
T_Validate ==
  /\ ppc = "enqueued"
  /\ ppc' = IF reqTarget = "" \/ Target(reqTarget).err # "" THEN "invalid"
            ELSE "valid"
  /\ UNCHANGED << callVars, raw, cfgTarget, reqTarget, label >>

\* validateAddress of the command line: nil when normalize.Target accepts the
\* server address, an error otherwise.
validateAddress_AcceptAll(serverAddress) == TRUE

validateAddress(serverAddress) == Target(serverAddress).err = ""

\* The command line validates the server address it was given.
T_ValidateAddress ==
  /\ ppc = "raw"
  /\ raw \in NormalizeInputs
  /\ ppc' = IF validateAddress(raw) THEN "cli_ok" ELSE "cli_invalid"
  /\ UNCHANGED << callVars, raw, cfgTarget, reqTarget, label >>

TargetNext ==
  \/ T_Protocol
  \/ T_GetDNSTargets
  \/ T_Process
  \/ T_Validate
  \/ T_ValidateAddress

TargetSpec == TargetInit /\ [][TargetNext]_vars


\* ------------------------------------------------------ the API server
MaxWorkers == 1        \* most workers connected to the queue at a time
MaxQueue == 1          \* most tasks enqueued in one run
MaxRequestServers == 2 \* longest dns_servers list of a request

DefaultRateLimitRPS == 10
DefaultMaxServersPerReq == 50

\* The servers a configuration file can list: with or without IP and
\* hostname (an IP that is none included), a port that is absent, valid or
\* out of range, and service lists with and without plain DNS.
ConfigIPs == { "", "9.9.9.9", "dns.quad9.net" }
ConfigHostnames == { "", "dns.quad9.net" }
ConfigPorts == { 0, 8053, 70000 }
ConfigServiceLists ==
  { << "do53/udp" >>, << "dot" >>, << "do53/tcp", "doh" >>,
    << "doq", "do53/udp" >>, << "dnscrypt", "dot" >> }
ConfigServers ==
  [ IP : ConfigIPs, Port : ConfigPorts, Hostname : ConfigHostnames,
    Services : ConfigServiceLists ]

\* One server with every field valid, as most configuration files have.
PlainServer ==
  [ IP |-> "9.9.9.9", Port |-> 0, Hostname |-> "dns.quad9.net",
    Services |-> << "do53/tcp", "doh" >> ]

\* (s *DNSServer) Validate of package config: "" for nil, else the error.
DNSServer_Validate(s) ==
  IF s.IP = "" /\ s.Hostname = ""
    THEN "at least one of 'ip' or 'hostname' must be provided"
  ELSE IF s.IP # "" /\ ~IsLiteralIP(s.IP)
    THEN "invalid IP address"
  ELSE IF s.Port # 0 /\ (s.Port < 1 \/ s.Port > 65535)
    THEN "invalid port"
  ELSE IF \E k \in 1 .. Len(s.Services) :
            s.Services[k] \in {"do53/udp", "do53/tcp"} /\ s.IP = ""
    THEN "do53/udp and do53/tcp require an IP address"
  ELSE ""

\* serviceToScheme of GetDNSTargets.
serviceToScheme ==
  [ svc \in {"do53/udp", "do53/tcp", "dot", "doh", "doq"} |->
      CASE svc = "do53/udp" -> "udp"
        [] svc = "do53/tcp" -> "tcp"
        [] svc = "dot" -> "tls"
        [] svc = "doh" -> "https"
        [] svc = "doq" -> "quic" ]

\* host := server.IP, or server.Hostname for the protocols that use one.
TargetHost_PreferHostname(protoCfg, server) ==
  IF server.Hostname # "" THEN server.Hostname ELSE server.IP

TargetHost(protoCfg, server) ==
  IF protoCfg.UsesHostname /\ server.Hostname # "" THEN server.Hostname
  ELSE server.IP

\* The body of GetDNSTargets' inner loop: the target of one service of one
\* server, or nothing when the service is unknown or the target is refused.
ServiceTarget(server, svc) ==
  IF svc \notin DOMAIN serviceToScheme THEN << >>
  ELSE LET protoCfg == ProtocolConfigs[serviceToScheme[svc]]
           host == TargetHost(protoCfg, server)
           port == IF server.Port = 0 THEN protoCfg.DefaultPort
                   ELSE server.Port
           rawTarget == protoCfg.Scheme \o "://" \o host \o ":" \o
                        ToString(port)
           norm == Target(rawTarget)
       IN IF norm.err # "" THEN << >>
          ELSE << ConfigTarget(rawTarget, norm.value) >>

RECURSIVE ServerTargets(_, _)
ServerTargets(server, svcs) ==
  IF svcs = << >> THEN << >>
  ELSE ServiceTarget(server, Head(svcs)) \o ServerTargets(server, Tail(svcs))

\* (c *APIConfig) GetDNSTargets: the targets of all services of all servers.
RECURSIVE GetDNSTargets(_)
GetDNSTargets(srvs) ==
  IF srvs = << >> THEN << >>
  ELSE ServerTargets(Head(srvs), Head(srvs).Services) \o
       GetDNSTargets(Tail(srvs))

\* config.ApplyIntOverride: the new value of *target.
ApplyIntOverride(flagChanged, flagValue, target, defaultVal) ==
  IF flagChanged /\ flagValue > 0 THEN flagValue
  ELSE IF target = 0 THEN defaultVal
  ELSE target

\* (c *APIConfig) GetMaxServersPerRequest
GetMaxServersPerRequest_OneLess(n) ==
  (IF n > 0 THEN n ELSE DefaultMaxServersPerReq) - 1

GetMaxServersPerRequest(n) == IF n > 0 THEN n ELSE DefaultMaxServersPerReq

\* NewServer: if cfg.RateLimiting.RequestsPerSecond > 0 { ... router.Use }
RateLimitEnabled(rps) == rps > 0

\* The target strings of a request's dns_servers.
RequestTargets == { "udp://9.9.9.9", "tls://dns.quad9.net:853", "h3://9.9.9.9" }

\* Lookup requests: whether req.Validate() accepts domain and query type,
\* and the targets of dns_servers.
Requests ==
  [ valid : BOOLEAN, servers : SeqsUpTo(RequestTargets, MaxRequestServers) ]

\* The configuration files: no server or one.
ConfigFiles == { << >> } \cup { << sv >> : sv \in ConfigServers }

\* s.config.GetDNSTargets() for each configuration file, and
\* normalize.Target(t) for each target string a request or a configuration
\* holds, computed once.
ConfigTargets == [ f \in ConfigFiles |-> GetDNSTargets(f) ]
KnownTargets ==
  RequestTargets \cup
  UNION { { ConfigTargets[f][k] : k \in 1 .. Len(ConfigTargets[f]) } :
          f \in ConfigFiles }
Normalized == [ t \in KnownTargets |-> Target(t) ]

\* The server command with a configuration file, flags and task client.
ApiInit ==
  /\ \/ /\ cfgServers \in ConfigFiles
        /\ cfgRps = 0
        /\ flagRps = [changed |-> FALSE, value |-> 0]
     \/ /\ cfgServers = << PlainServer >>
        /\ cfgRps \in { 0, 7 }
        /\ flagRps \in { [changed |-> FALSE, value |-> 0] } \cup
                       [ changed : {TRUE}, value : { 0, 5 } ]
  /\ cfgMaxServers \in { 0, 1 }
  /\ spc = "load"
  /\ limiter = FALSE
  /\ mode \in { "asynq", "memory" }
  /\ nworkers = 0
  /\ queue = << >>
  /\ req = NoRequest
  /\ reply = NoReply
  /\ servers = << >>
  /\ qtype = "a"
  /\ retries = 0
  /\ maxConc = 1
  /\ tags = << >>
  /\ replies = {}
  /\ CallStart
  /\ NoCli
  /\ NoTarget
  /\ NoMemoryClient
  /\ NoAsynqClient

\* LoadConfig: every server of the file is validated; an error ends the
\* command.
LoadConfig ==
  /\ spc = "load"
  /\ spc' = IF \E k \in 1 .. Len(cfgServers) :
                 DNSServer_Validate(cfgServers[k]) # ""
            THEN "exit" ELSE "override"
  /\ UNCHANGED << cliVars, runVars, targetVars, memVars, asynqVars, cfgServers, cfgRps, cfgMaxServers,
                  flagRps, limiter, mode, nworkers, queue, req, reply >>

\* runServer: the flag overrides (--max-servers is not given).
ApplyOverrides ==
  /\ spc = "override"
  /\ cfgRps' = ApplyIntOverride(flagRps.changed, flagRps.value, cfgRps,
                                DefaultRateLimitRPS)
  /\ cfgMaxServers' = ApplyIntOverride(FALSE, 0, cfgMaxServers,
                                       DefaultMaxServersPerReq)
  /\ spc' = "new"
  /\ UNCHANGED << cliVars, runVars, targetVars, memVars, asynqVars, cfgServers, flagRps, limiter, mode,
                  nworkers, queue, req, reply >>

\* NewServer: the middleware stack and the routes.
NewServer ==
  /\ spc = "new"
  /\ limiter' = RateLimitEnabled(cfgRps)
  /\ spc' = "serving"
  /\ UNCHANGED << cliVars, runVars, targetVars, memVars, asynqVars, cfgServers, cfgRps, cfgMaxServers,
                  flagRps, mode, nworkers, queue, req, reply >>

\* A worker process connects to the queue, or goes away.
WorkerConnect ==
  /\ spc = "serving"
  /\ mode = "asynq"
  /\ nworkers < MaxWorkers
  /\ nworkers' = nworkers + 1
  /\ UNCHANGED << cliVars, runVars, targetVars, memVars, asynqVars, cfgServers, cfgRps, cfgMaxServers,
                  flagRps, spc, limiter, mode, queue, req, reply >>

WorkerDisconnect ==
  /\ spc = "serving"
  /\ nworkers > 0
  /\ nworkers' = nworkers - 1
  /\ UNCHANGED << cliVars, runVars, targetVars, memVars, asynqVars, cfgServers, cfgRps, cfgMaxServers,
                  flagRps, spc, limiter, mode, queue, req, reply >>

\* s.tasksClient.(*tasks.Client): the task client is the Asynq one.
IsAsynqClient_Always == TRUE

IsAsynqClient == mode = "asynq"

\* (c *Client) HasActiveWorkers: false on an inspector error.
HasActiveWorkers(inspectorErr) == ~inspectorErr /\ nworkers > 0

\* if len(req.DNSServers) == 0 after the configured servers were filled in.
NoServers_Never(given) == FALSE

NoServers(given) == given = << >>

\* processDNSLookup up to the enqueueing: the status code, the message and
\* the servers handed to EnqueueDNSLookup.
Rejected(code, message) ==
  [code |-> code, status |-> message, servers |-> << >>]

\* The loop that replaces every target by its normalized form.
NormalizedServers_Raw(given) == given

NormalizedServers(given) ==
  [ k \in 1 .. Len(given) |-> Normalized[given[k]].value ]

LookupOutcome(r, inspectorErr, enqueueErr) ==
  LET given == IF r.servers = << >> THEN ConfigTargets[cfgServers]
               ELSE r.servers
  IN IF ~r.valid THEN Rejected(400, "invalid request")
     ELSE IF IsAsynqClient /\ ~HasActiveWorkers(inspectorErr)
       THEN Rejected(503, "no workers available")
     ELSE IF NoServers(given) THEN Rejected(400, "no DNS server")
     ELSE IF Len(given) > GetMaxServersPerRequest(cfgMaxServers)
       THEN Rejected(400, "too many DNS servers")
     ELSE IF \E k \in 1 .. Len(given) : Normalized[given[k]].err # ""
       THEN Rejected(400, "invalid target")
     ELSE IF enqueueErr THEN Rejected(500, "enqueue failed")
     ELSE [ code |-> 200, status |-> "enqueued",
            servers |-> NormalizedServers(given) ]

\* handleDNSLookup / processDNSLookup: one lookup submission, answered and,
\* when accepted, enqueued. Only the Asynq client has an inspector and an
\* enqueueing that can fail.
processDNSLookup ==
  /\ spc = "serving"
  /\ Len(queue) < MaxQueue
  /\ \E r \in Requests, inspectorErr \in BOOLEAN, enqueueErr \in BOOLEAN :
       /\ mode = "memory" => ~inspectorErr /\ ~enqueueErr
       /\ LET o == LookupOutcome(r, inspectorErr, enqueueErr) IN
            /\ req' = r
            /\ reply' = [op |-> "lookup", code |-> o.code, status |-> o.status]
            /\ queue' = IF o.code = 200 THEN Append(queue, o.servers)
                        ELSE queue
  /\ UNCHANGED << cliVars, runVars, targetVars, memVars, asynqVars, cfgServers, cfgRps, cfgMaxServers,
                  flagRps, spc, limiter, mode, nworkers >>

\* The rate-limiter middleware answers a request itself.
RateLimitExceeded ==
  /\ spc = "serving"
  /\ limiter
  /\ reply' = [op |-> "limited", code |-> 429, status |-> "rate limit exceeded"]
  /\ UNCHANGED << cliVars, runVars, targetVars, memVars, asynqVars, cfgServers, cfgRps, cfgMaxServers,
                  flagRps, spc, limiter, mode, nworkers, queue, req >>

\* handleHealthCheck: degraded when the Asynq client sees no worker.
handleHealthCheck ==
  /\ spc = "serving"
  /\ \E inspectorErr \in BOOLEAN :
       /\ mode = "memory" => ~inspectorErr
       /\ reply' = IF IsAsynqClient /\ ~HasActiveWorkers(inspectorErr)
                     THEN [op |-> "health", code |-> 503, status |-> "degraded"]
                     ELSE [op |-> "health", code |-> 200, status |-> "ok"]
  /\ UNCHANGED << cliVars, runVars, targetVars, memVars, asynqVars, cfgServers, cfgRps, cfgMaxServers,
                  flagRps, spc, limiter, mode, nworkers, queue, req >>

ApiNext ==
  \/ LoadConfig
  \/ ApplyOverrides
  \/ NewServer
  \/ WorkerConnect
  \/ WorkerDisconnect
  \/ processDNSLookup
  \/ RateLimitExceeded
  \/ handleHealthCheck

ApiSpec == ApiInit /\ [][ApiNext]_vars

\* ------------------------------------------------ the in-memory task client
MaxClock == 1          \* last reading of the wall clock
MaxTasks == 2          \* most EnqueueDNSLookup calls of one run

\* id := "mem-" + time.Now().Format("20060102150405.000000000"): the
\* timestamp, to the nanosecond, of the clock reading.
MemID(now) == "mem-" \o ToString(now)

\* The task IDs GetTaskStatus is asked for: those a clock reading gives, and
\* one no task ever gets.
PollIDs == { MemID(c) : c \in 0 .. MaxClock } \cup { "mem-none" }

\* The server lists handed to EnqueueDNSLookup.
MemServerLists == { << "udp://9.9.9.9:53" >>, << "tls://dns.quad9.net:853" >> }

\* m.tasks[id] == nil, and a stored *DNSLookupResults.
NilResults == [set |-> FALSE, Details |-> << >>]
LookupResults(details) == [set |-> TRUE, Details |-> details]

\* What GetTaskStatus and handleGetTaskStatus answer.
NoAnswer == [code |-> 0, status |-> "", result |-> NilResults]
NotFound == [code |-> 404, status |-> "not found", result |-> NilResults]
Pending == [code |-> 200, status |-> "PENDING", result |-> NilResults]
Success(res) == [code |-> 200, status |-> "SUCCESS", result |-> res]

\* An in-memory task client just made by NewMemoryClient.
MemInit ==
  /\ clock = 0
  /\ ttl = {}
  /\ mtasks = << >>
  /\ gor = << >>
  /\ seen = [id \in PollIDs |-> NoAnswer]
  /\ servers = << >>
  /\ qtype = "a"
  /\ retries = 0
  /\ maxConc = 1
  /\ tags = << >>
  /\ replies = {}
  /\ CallStart
  /\ NoCli
  /\ NoTarget
  /\ NoServer
  /\ NoAsynqClient

\* Time passes: the next reading of the wall clock is later.
Tick ==
  /\ clock < MaxClock
  /\ clock' = clock + 1
  /\ UNCHANGED << cliVars, runVars, targetVars, apiVars, asynqVars, ttl, mtasks, gor, seen >>

\* (m *memoryClient) EnqueueDNSLookup: the ID from the clock, the entries
\* under the mutex, the goroutine started, the ID returned.
memoryClient_EnqueueDNSLookup ==
  /\ Len(gor) < MaxTasks
  /\ \E srv \in MemServerLists :
       LET id == MemID(clock) IN
         /\ ttl' = ttl \cup {id}
         /\ mtasks' = [ i \in ttl \cup {id} |->
                          IF i = id THEN NilResults ELSE mtasks[i] ]
         /\ gor' = Append(gor, [ id |-> id, servers |-> srv, pc |-> "start",
                                 ctxDone |-> FALSE, results |-> << >> ])
  /\ UNCHANGED << cliVars, runVars, targetVars, apiVars, asynqVars, clock, seen >>

\* The context of the request that submitted task g ends (the handler has
\* returned or the client has gone away).
RequestContextEnds(g) ==
  /\ g \in 1 .. Len(gor)
  /\ ~gor[g].ctxDone
  /\ gor' = [gor EXCEPT ![g].ctxDone = TRUE]
  /\ UNCHANGED << cliVars, runVars, targetVars, apiVars, asynqVars, clock, ttl, mtasks, seen >>

\* taskCtx := context.Background(): whether the context handed to RunQueries
\* is done.
TaskCtxDone_Request(g) == gor[g].ctxDone

TaskCtxDone(g) == FALSE

\* The goroutine of task g: RunQueries returns one result per server; each
\* is ok or an error, and context_cancelled when RunQueries' context is done.
Go_RunQueries(g) ==
  /\ g \in 1 .. Len(gor)
  /\ gor[g].pc = "start"
  /\ \E outcome \in {"ok", "error"} :
       gor' = [gor EXCEPT
                 ![g].results =
                    [ k \in 1 .. Len(gor[g].servers) |->
                        [ Target |-> gor[g].servers[k],
                          Status |-> IF TaskCtxDone(g) THEN "cancelled"
                                     ELSE outcome ] ],
                 ![g].pc = "store"]
  /\ UNCHANGED << cliVars, runVars, targetVars, apiVars, asynqVars, clock, ttl, mtasks, seen >>

\* m.tasks[id] = lookupResults under the mutex.
StoreResults(tasks, id, res) == [tasks EXCEPT ![id] = res]

Go_Store(g) ==
  /\ g \in 1 .. Len(gor)
  /\ gor[g].pc = "store"
  /\ mtasks' = StoreResults(mtasks, gor[g].id, LookupResults(gor[g].results))
  /\ gor' = [gor EXCEPT ![g].pc = "done"]
  /\ UNCHANGED << cliVars, runVars, targetVars, apiVars, asynqVars, clock, ttl, seen >>

\* (m *memoryClient) GetTaskStatus and the status code handleGetTaskStatus
\* makes of it.
memoryClient_GetTaskStatus(taskID) ==
  IF taskID \notin ttl THEN NotFound
  ELSE IF ~mtasks[taskID].set THEN Pending
  ELSE Success(mtasks[taskID])

\* handleGetTaskStatus for one task ID.
handleGetTaskStatus(taskID) ==
  /\ seen' = [seen EXCEPT ![taskID] = memoryClient_GetTaskStatus(taskID)]
  /\ UNCHANGED << cliVars, runVars, targetVars, apiVars, asynqVars, clock, ttl, mtasks, gor >>

MemNext ==
  \/ Tick
  \/ memoryClient_EnqueueDNSLookup
  \/ \E g \in 1 .. MaxTasks : RequestContextEnds(g)
  \/ \E g \in 1 .. MaxTasks : Go_RunQueries(g)
  \/ \E g \in 1 .. MaxTasks : Go_Store(g)
  \/ \E id \in PollIDs : handleGetTaskStatus(id)

MemSpec == MemInit /\ [][MemNext]_vars

\* The scheduler runs every started goroutine, and every exchange of its
\* RunQueries call returns or times out, so that the call returns.
GoStep(g) == Go_RunQueries(g) \/ Go_Store(g)

MemLiveSpec == MemSpec /\ \A g \in 1 .. MaxTasks : WF_vars(GoStep(g))

\* ------------------------------------------- the Asynq client and its worker
AsynqMaxRetry == 3

\* The task IDs uuid.NewString() hands out, and one no task ever gets.
AsynqIDs == { "uuid-1", "uuid-2" }
AsynqPollIDs == AsynqIDs \cup { "uuid-none" }

\* The Redis key Client.GetTaskStatus reads, and the key handleTask writes.
ResultKey(taskID) == "dnstester:result:" \o taskID
TaskMetaKey(taskID) == "dnstester:task-meta:" \o taskID

\* The JSON text handleTask stores for a task.
TaskMeta(taskID) == "{status:SUCCESS,task_id:" \o taskID \o "}"

\* A status answer of Client.GetTaskStatus.
Status(status, res) == [status |-> status, result |-> res]

\* An Asynq client and a worker running one of the two handleTask functions.
AsynqInit ==
  /\ astate = [id \in AsynqIDs |-> "none"]
  /\ retried = [id \in AsynqIDs |-> 0]
  /\ redis = << >>
  /\ written = {}
  /\ handler \in { "ResultWriter", "task-meta" }
  /\ astatus = [id \in AsynqPollIDs |-> Status("", "")]
  /\ servers = << >>
  /\ qtype = "a"
  /\ retries = 0
  /\ maxConc = 1
  /\ tags = << >>
  /\ replies = {}
  /\ CallStart
  /\ NoCli
  /\ NoTarget
  /\ NoServer
  /\ NoMemoryClient

\* (c *Client) EnqueueDNSLookup: a task with a fresh ID, asynq.MaxRetry(3) and
\* no retention, pending in the queue.
Client_EnqueueDNSLookup ==
  /\ \E id \in AsynqIDs :
       /\ astate[id] = "none"
       /\ astate' = [astate EXCEPT ![id] = "pending"]
  /\ UNCHANGED << cliVars, runVars, targetVars, apiVars, memVars, retried, redis,
                  written, handler, astatus >>

\* The worker takes a pending task, or one due for a retry, from the queue.
Dequeue(id) ==
  /\ astate[id] \in {"pending", "retry"}
  /\ astate' = [astate EXCEPT ![id] = "active"]
  /\ UNCHANGED << cliVars, runVars, targetVars, apiVars, memVars, retried, redis,
                  written, handler, astatus >>

\* handleTask: the lookup is run and its result stored, through Asynq's
\* ResultWriter or under the task-meta key of Redis; the write can fail. On
\* nil Asynq completes the task and, as it has no retention, deletes it; on
\* an error Asynq retries it, or archives it after AsynqMaxRetry retries.
handleTask(id) ==
  /\ astate[id] = "active"
  /\ \E writeErr \in BOOLEAN :
       IF writeErr
         THEN /\ IF retried[id] < AsynqMaxRetry
                   THEN /\ astate' = [astate EXCEPT ![id] = "retry"]
                        /\ retried' = [retried EXCEPT ![id] = @ + 1]
                   ELSE /\ astate' = [astate EXCEPT ![id] = "archived"]
                        /\ UNCHANGED retried
              /\ UNCHANGED << redis, written >>
         ELSE /\ astate' = [astate EXCEPT ![id] = "deleted"]
              /\ IF handler = "ResultWriter"
                   THEN /\ written' = written \cup {id}
                        /\ UNCHANGED redis
                   ELSE /\ redis' = [ k \in DOMAIN redis \cup {TaskMetaKey(id)} |->
                                        IF k = TaskMetaKey(id) THEN TaskMeta(id)
                                        ELSE redis[k] ]
                        /\ UNCHANGED written
              /\ UNCHANGED retried
  /\ UNCHANGED << cliVars, runVars, targetVars, apiVars, memVars, handler, astatus >>

\* json.Unmarshal([]byte(resultJSON), &res) == nil: the text is a JSON
\* object (fields DNSLookupResults does not have are skipped).
Unmarshals(resultJSON) ==
  /\ Len(resultJSON) >= 2
  /\ SubSeq(resultJSON, 1, 1) = "{"
  /\ SubSeq(resultJSON, Len(resultJSON), Len(resultJSON)) = "}"

\* The states inspector.GetTaskInfo reports for a task of the queue; a task
\* that was never enqueued ("none") or was deleted has no info.
QueueStates ==
  { "pending", "scheduled", "active", "retry", "archived", "completed",
    "aggregating" }

\* switch taskInfo.State
QueueStatus_AllFailure(state) == "FAILURE"

QueueStatus(state) ==
  CASE state = "active" -> "ACTIVE"
    [] state = "retry" -> "RETRY"
    [] state = "archived" -> "FAILURE"
    [] OTHER -> "PENDING"

\* (c *Client) GetTaskStatus: the cached result if there is one that decodes,
\* else the state of the task in the queue.
Client_GetTaskStatus(taskID) ==
  IF /\ ResultKey(taskID) \in DOMAIN redis
     /\ Unmarshals(redis[ResultKey(taskID)])
    THEN Status("SUCCESS", redis[ResultKey(taskID)])
  ELSE IF taskID \notin DOMAIN astate \/ astate[taskID] \notin QueueStates
    THEN Status("not found", "")
  ELSE Status(QueueStatus(astate[taskID]), "")

\* A client polls a task.
PollTask(taskID) ==
  /\ astatus' = [astatus EXCEPT ![taskID] = Client_GetTaskStatus(taskID)]
  /\ UNCHANGED << cliVars, runVars, targetVars, apiVars, memVars, astate, retried,
                  redis, written, handler >>

AsynqNext ==
  \/ Client_EnqueueDNSLookup
  \/ \E id \in AsynqIDs : Dequeue(id)
  \/ \E id \in AsynqIDs : handleTask(id)
  \/ \E id \in AsynqPollIDs : PollTask(id)

AsynqSpec == AsynqInit /\ [][AsynqNext]_vars

\* Client.GetTaskStatus against every content of the result cache and of the
\* queue: per task no cached text, one that decodes or one that does not,
\* and no task info or a task in any state.
CachedTexts == { "{details:{},duration:1}", "not json" }

CacheOf(choice) ==
  [ k \in { ResultKey(id) : id \in { i \in AsynqIDs : choice[i] # "" } } |->
      choice[CHOOSE i \in AsynqIDs : ResultKey(i) = k] ]

StatusInit ==
  /\ astate \in [AsynqIDs -> QueueStates \cup { "none" }]
  /\ \E choice \in [AsynqIDs -> CachedTexts \cup { "" }] :
       redis = CacheOf(choice)
  /\ retried = [id \in AsynqIDs |-> 0]
  /\ written = {}
  /\ handler = "task-meta"
  /\ astatus = [id \in AsynqPollIDs |-> Status("", "")]
  /\ servers = << >>
  /\ qtype = "a"
  /\ retries = 0
  /\ maxConc = 1
  /\ tags = << >>
  /\ replies = {}
  /\ CallStart
  /\ NoCli
  /\ NoTarget
  /\ NoServer
  /\ NoMemoryClient

StatusNext == \E id \in AsynqPollIDs : PollTask(id)

StatusSpec == StatusInit /\ [][StatusNext]_vars

\* ------------------------------------------------ the CLI command's polling
MaxPolls == 3          \* status polls of one CLI run that are followed

\* The status strings the API sends, and one more the CLI does not know.
TaskStatuses == { "PENDING", "ACTIVE", "RETRY", "SUCCESS", "FAILURE" }
StatusTexts == TaskStatuses \cup { "UNKNOWN" }

\* What the HTTP exchange of a status poll comes to: a transport error, or a
\* response with a status code and a body, a TaskStatusResponse in JSON or
\* something else.
HttpAnswers ==
  { [transport |-> TRUE, code |-> 0, body |-> ""] } \cup
  [ transport : {FALSE}, code : {200}, body : StatusTexts \cup {"<html>"} ] \cup
  [ transport : {FALSE}, code : {404, 500}, body : {"error"} ]

\* (c *Client) GetTaskStatus of the API client: the decoded response, or an
\* error.
PollError == [err |-> TRUE, status |-> ""]

ApiClient_GetTaskStatus(h) ==
  IF h.transport THEN PollError
  ELSE IF h.code # 200 THEN PollError
  ELSE IF h.body \notin StatusTexts THEN PollError
  ELSE [err |-> FALSE, status |-> h.body]

\* if taskStatus.Status == "SUCCESS" {... break} else if ... == "FAILURE"
\* {... break}
LoopExit_SuccessOnly(status) == status = "SUCCESS"

LoopExit(status) == status \in { "SUCCESS", "FAILURE" }

\* runDNSTest is about to post the lookup request.
CliInit ==
  /\ cpc = "enqueue"
  /\ answers = << >>
  /\ sleeps = 0
  /\ servers = << >>
  /\ qtype = "a"
  /\ retries = 0
  /\ maxConc = 1
  /\ tags = << >>
  /\ replies = {}
  /\ CallStart
  /\ NoTarget
  /\ NoServer
  /\ NoMemoryClient
  /\ NoAsynqClient

\* client.EnqueueDNSLookup: the task ID, or an error that ends the command.
CLI_Enqueue ==
  /\ cpc = "enqueue"
  /\ \E ok \in BOOLEAN : cpc' = IF ok THEN "poll" ELSE "exit_error"
  /\ UNCHANGED << runVars, targetVars, apiVars, memVars, asynqVars, answers,
                  sleeps >>

\* One pass of the poll loop up to the sleep.
CLI_Poll ==
  /\ cpc = "poll"
  /\ Len(answers) < MaxPolls
  /\ \E h \in HttpAnswers :
       LET taskStatus == ApiClient_GetTaskStatus(h) IN
         /\ answers' = Append(answers, taskStatus)
         /\ cpc' = IF taskStatus.err THEN "exit_error"
                   ELSE IF LoopExit(taskStatus.status) THEN "exit_nil"
                   ELSE "sleep"
  /\ UNCHANGED << runVars, targetVars, apiVars, memVars, asynqVars, sleeps >>

\* time.Sleep(DefaultPollInterval), then the next pass.
CLI_Sleep ==
  /\ cpc = "sleep"
  /\ sleeps' = sleeps + 1
  /\ cpc' = "poll"
  /\ UNCHANGED << runVars, targetVars, apiVars, memVars, asynqVars, answers >>

CliNext ==
  \/ CLI_Enqueue
  \/ CLI_Poll
  \/ CLI_Sleep

CliSpec == CliInit /\ [][CliNext]_vars

RetrySpec == RetryInit /\ [][Next]_vars

\* The scheduler runs every goroutine that can take a step, and a sleeping
\* goroutine wakes up; nothing makes an exchange return or the caller cancel.
WorkerStep(i) == i \in Workers /\ WorkerNext(i)

LiveSpec ==
  /\ Spec
  /\ WF_vars(MainNext)
  /\ \A i \in 1 .. MaxTargets : WF_vars(WorkerStep(i))

\* (c *APIConfig) GetMaxConcurrentQueries, and the values of
\* dns.max_concurrent_queries a configuration file holds.
DefaultMaxConcurrentQueries == 500

GetMaxConcurrentQueries_Raw(n) == n

GetMaxConcurrentQueries(n) ==
  IF n > 0 THEN n ELSE DefaultMaxConcurrentQueries

ConfiguredCeilings == -1 .. MaxConcurrent

\* RunQueries as the in-memory client and the worker's task handler call it:
\* with the ceiling GetMaxConcurrentQueries returns.
CeilingInit ==
  /\ servers \in ServerLists
  /\ qtype \in QTypeInputs
  /\ retries \in 0 .. MaxRetries
  /\ Len(servers) * retries <= MaxAttempts
  /\ maxConc \in { GetMaxConcurrentQueries(c) : c \in ConfiguredCeilings }
  /\ tags = [i \in Workers |-> << >>]
  /\ replies = { [Rcode |-> 0, Answer |-> << rrA >>] }
  /\ CallStart
  /\ NoCli
  /\ NoTarget
  /\ NoServer
  /\ NoMemoryClient
  /\ NoAsynqClient

\* The scheduler runs every goroutine that can take a step, and every
\* exchange a worker waits for returns or times out.
ExchangeStep(i) == i \in Workers /\ Exchange_Return(i)

CeilingSpec ==
  /\ CeilingInit
  /\ [][Next]_vars
  /\ WF_vars(MainNext)
  /\ \A i \in 1 .. MaxTargets : WF_vars(WorkerStep(i)) /\ WF_vars(ExchangeStep(i))

\* The Exchange call of every abandoned exchange goroutine returns or times
\* out; the scheduler then runs the goroutine.
OrphanStep(i) == i \in Workers /\ Orphan_Return(i)

OrphanSpec == Spec /\ \A i \in 1 .. MaxTargets : WF_vars(OrphanStep(i))

\* ------------------------------------------------------------- vocabulary
\* QueryServer of worker i has returned (its result is final).
Returned(i) == result[i] # NoResult

\* Worker i is inside its QueryServer call.
InQueryServer(i) ==
  pc[i] \in {"start", "loop", "perform", "await", "post", "sleep"}

\* Exchanges started for worker i whose up.Exchange has not returned yet.
ExchangesInFlight(i) == (IF exch[i] = "running" THEN 1 ELSE 0) + orphans[i]

RecognizedQType == ToUpper(qtype) \in DOMAIN StringToType

\* The variables of worker i's goroutine and of the exchanges it starts.
Local(i) ==
  << pc[i], attempt[i], err[i], response[i], msg[i], result[i], detail[i],
     hist[i], delays[i], exch[i], resultCh[i], orphans[i] >>

\* The schemes of normalize.ProtocolConfigs.
SupportedSchemes == { "udp", "tcp", "tls", "https", "quic" }

\* Worker i is between mu.Lock() and mu.Unlock().
InCritical(i) == pc[i] = "write"

IsPrefix(s, t) ==
  /\ Len(s) <= Len(t)
  /\ \A k \in 1 .. Len(s) : s[k] = t[k]

AllErr(s) == \A k \in 1 .. Len(s) : s[k] = "err"

\* ------------------------------------------------------------------ claims
\* C1: during a RunQueries call with ceiling K the number of QueryServer
\* executions in flight at the same instant never exceeds K.
C1_AtMostKInFlight ==
  Cardinality({ i \in Workers : InQueryServer(i) }) <= maxConc

\* C1 witness: K < N, K executions are in flight and the dispatch loop is
\* blocked on the pool with a target still to dispatch.
C1_Witness ==
  /\ maxConc < Len(servers)
  /\ Cardinality({ i \in Workers : pc[i] = "await" }) = maxConc
  /\ mpc = "send"
  /\ pool = maxConc

\* C2: when RunQueries returns every worker has finished and the key set of
\* the result map is exactly the set of target strings supplied.
C2_ReturnsAllTargets ==
  mpc = "returned" =>
    /\ \A i \in Workers : pc[i] = "finished"
    /\ DOMAIN results = { servers[i] : i \in Workers }

\* C2 witness: RunQueries has returned two distinct targets, one ok and one
\* failed.
C2_Witness ==
  /\ mpc = "returned"
  /\ Len(servers) = 2
  /\ servers[1] # servers[2]
  /\ results[servers[1]].status = "error"
  /\ results[servers[2]].status = "ok"

\* C3: with two distinct targets, one whose attempt obtained a response and
\* one whose attempts all ended in a transport error, RunQueries returns a
\* map of exactly 2 entries, the first ok and the second error.
C3_PartialFailure ==
  \A i, j \in Workers :
    ( /\ mpc = "returned"
      /\ Len(servers) = 2
      /\ servers[i] # servers[j]
      /\ hist[i] = << "ok" >>
      /\ hist[j] # << >>
      /\ AllErr(hist[j]) )
    => /\ Cardinality(DOMAIN results) = 2
       /\ results[servers[i]].status = "ok"
       /\ results[servers[j]].status = "error"

\* C3 witness: the run of the claim, B having used every retry.
C3_Witness ==
  /\ mpc = "returned"
  /\ Len(servers) = 2
  /\ servers[1] # servers[2]
  /\ hist[1] = << "ok" >>
  /\ retries = 2
  /\ hist[2] = << "err", "err" >>
  /\ results[servers[2]] = ErrorResult("query_failed")


\* C4 as claimed, read in its favour (a recognized record type, and a target
\* that still has retry attempts left): once the signal has fired, every
\* target that had no outcome yet resolves to error/context_cancelled.
C4_AllResolveCancelled ==
  [][ \A i \in Workers :
        ( /\ cancelled
          /\ RecognizedQType
          /\ attempt[i] < retries - 1
          /\ ~Returned(i)
          /\ Returned(i)' )
        => result'[i] = ErrorResult("context_cancelled") ]_vars

\* C4 amended: once the signal has fired no target passes the check at the
\* head of the retry loop and none starts a retry delay, so each target ends
\* at most the attempt it was in; a target that resolves after the signal
\* resolves to error/context_cancelled unless its record type is unknown
\* (invalid_qtype), its attempt still delivered a response (ok), or it had
\* already used its last attempt (query_failed or no_response).
C4_NoRetryAfterCancel ==
  [][ \A i \in Workers :
        cancelled =>
          /\ pc[i] # "perform" => pc'[i] # "perform"
          /\ pc[i] # "sleep" => pc'[i] # "sleep"
          /\ (~Returned(i) /\ Returned(i)') =>
               \/ result'[i] = ErrorResult("context_cancelled")
               \/ ~RecognizedQType
                    /\ result'[i] = ErrorResult("invalid_qtype")
               \/ /\ result'[i] = OKResult
                  /\ pc[i] = "post"
                  /\ hist[i][Len(hist[i])] = "ok"
               \/ /\ pc[i] = "loop"
                  /\ attempt[i] >= retries
                  /\ result'[i].class \in {"query_failed", "no_response"}
    ]_vars

\* C4 witness: the signal has fired and a target with retries left after a
\* failed attempt has resolved to context_cancelled.
C4_Witness ==
  \E i \in Workers :
    /\ cancelled
    /\ result[i] = ErrorResult("context_cancelled")
    /\ hist[i] = << "err" >>
    /\ retries >= 2

\* C5: once the signal has fired RunQueries eventually returns, whether or
\* not the exchanges in flight ever return.
C5_CancelThenReturns == cancelled ~> (mpc = "returned")

\* C5 witness: RunQueries has returned after a cancellation while an
\* abandoned exchange is still in flight.
C5_Witness ==
  /\ cancelled
  /\ mpc = "returned"
  /\ \E i \in Workers : orphans[i] > 0

\* C6: with retries = 3 and attempts that fail twice and then succeed,
\* QueryServer returns ok after exactly 3 attempts and 2 retry delays; short
\* of a cancellation it does not return before the third attempt.
C6_ThirdAttemptSucceeds ==
  \A i \in Workers :
    ( /\ Returned(i)
      /\ retries = 3
      /\ RecognizedQType
      /\ ~cancelled
      /\ IsPrefix(hist[i], << "err", "err", "ok" >>) )
    => /\ hist[i] = << "err", "err", "ok" >>
       /\ delays[i] = 2
       /\ result[i] = OKResult

\* C6 witness: such a run has returned.
C6_Witness ==
  \E i \in Workers :
    /\ Returned(i)
    /\ retries = 3
    /\ ~cancelled
    /\ hist[i] = << "err", "err", "ok" >>

\* C7: for retries >= 1, when every attempt ends in a transport error and
\* nothing is cancelled, QueryServer returns query_failed after exactly
\* `retries` attempts and retries-1 delays; it never makes more attempts.
C7_RetriesExhausted ==
  \A i \in Workers :
    /\ Len(hist[i]) + (IF pc[i] = "await" THEN 1 ELSE 0) <= retries
    /\ ( /\ Returned(i)
         /\ retries >= 1
         /\ RecognizedQType
         /\ ~cancelled
         /\ AllErr(hist[i]) )
       => /\ Len(hist[i]) = retries
          /\ delays[i] = retries - 1
          /\ result[i] = ErrorResult("query_failed")

\* C7 witness: three failed attempts, query_failed.
C7_Witness ==
  \E i \in Workers :
    /\ Returned(i)
    /\ ~cancelled
    /\ retries = 3
    /\ hist[i] = << "err", "err", "err" >>
    /\ exch[i] = "none"
    /\ AddressToUpstreamOK(servers[i])

\* C8: for a record type outside the recognized set QueryServer makes no
\* attempt and returns error/invalid_qtype, whatever the retry count and the
\* state of the signal.
C8_InvalidQType ==
  ~RecognizedQType =>
    \A i \in Workers :
      /\ hist[i] = << >>
      /\ exch[i] = "none"
      /\ pc[i] \notin {"loop", "perform", "await", "post", "sleep"}
      /\ Returned(i) => result[i] = ErrorResult("invalid_qtype")

\* C8 witness: an unknown record type, the signal already fired, retries 3.
C8_Witness ==
  \E i \in Workers :
    /\ qtype = "BOGUS"
    /\ cancelled
    /\ retries = 3
    /\ pc[i] = "lock"
    /\ result[i] = ErrorResult("invalid_qtype")

\* C9: when the signal is set at the check before an attempt (the first one
\* included) QueryServer returns error/context_cancelled at once, and after
\* its return no attempt is started.
C9_CheckBeforeAttempt ==
  [][ \A i \in Workers :
        /\ ( /\ pc[i] = "loop"
             /\ attempt[i] < retries
             /\ cancelled
             /\ pc'[i] # "loop" )
           => /\ pc'[i] = "lock"
              /\ result'[i] = ErrorResult("context_cancelled")
              /\ hist'[i] = hist[i]
              /\ exch'[i] = "none"
        /\ Returned(i) => /\ hist'[i] = hist[i]
                          /\ exch'[i] = exch[i]
                          /\ result'[i] = result[i]
    ]_vars

\* C9 witness: cancelled at the check before the very first attempt.
C9_Witness ==
  \E i \in Workers :
    /\ RecognizedQType
    /\ retries >= 1
    /\ hist[i] = << >>
    /\ result[i] = ErrorResult("context_cancelled")

\* C10: the attempts of one QueryServer call are sequential: at most one of
\* the exchanges it started is in flight at any time.
C10_SequentialAttempts ==
  \A i \in Workers : ExchangesInFlight(i) <= 1

\* C10 witness: an exchange abandoned on cancellation is still in flight
\* after its QueryServer call has returned.
C10_Witness ==
  \E i \in Workers :
    /\ orphans[i] = 1
    /\ Returned(i)
    /\ Len(hist[i]) = 2

\* C11 as claimed, read in its favour (nothing is cancelled): an attempt that
\* returned neither an error nor a response is the last attempt QueryServer
\* makes, and QueryServer then returns error/no_response.
C11_NilResponseTerminal ==
  \A i \in Workers :
    \A k \in 1 .. Len(hist[i]) :
      (hist[i][k] = "nil" /\ ~cancelled) =>
        /\ Len(hist[i]) = k
        /\ Returned(i) => result[i] = ErrorResult("no_response")

\* C11 amended: an attempt that returned neither an error nor a response is
\* retried like a failed one.  QueryServer returns error/no_response only
\* after the loop has made all `retries` attempts and the last of them
\* returned neither error nor response (or when retries is 0); and, short of
\* a cancellation, a call whose latest attempt returned neither has returned
\* only with all `retries` attempts made, retries-1 delays and no_response.
C11_NilResponseRetried ==
  \A i \in Workers :
    Returned(i) =>
      /\ result[i] = ErrorResult("no_response") =>
            /\ Len(hist[i]) = retries
            /\ retries = 0 \/ hist[i][retries] = "nil"
      /\ ( /\ ~cancelled
           /\ hist[i] # << >>
           /\ hist[i][Len(hist[i])] = "nil" )
         => /\ Len(hist[i]) = retries
            /\ delays[i] = retries - 1
            /\ result[i] = ErrorResult("no_response")

\* C11 witness: two attempts, both without error and without response, one
\* delay between them, no_response.
C11_Witness ==
  \E i \in Workers :
    /\ ~cancelled
    /\ retries = 2
    /\ hist[i] = << "nil", "nil" >>
    /\ delays[i] = 1
    /\ result[i] = ErrorResult("no_response")

\* C12: when the latest attempt of a returned QueryServer call handed over a
\* response without error, the outcome is ok whatever the response code, and
\* a response with code 3 yields the response-code text "NXDOMAIN".
C12_ResponseMeansOK ==
  \A i \in Workers :
    ( /\ Returned(i)
      /\ hist[i] # << >>
      /\ hist[i][Len(hist[i])] = "ok" )
    => /\ result[i] = OKResult
       /\ detail[i].Error = ""
       /\ msg[i].Rcode = 3 => detail[i].RCode = "NXDOMAIN"

\* C12 witness: a response with code 3 obtained on a retry, returned as ok
\* with "NXDOMAIN".
C12_Witness ==
  \E i \in Workers :
    /\ hist[i] = << "err", "ok" >>
    /\ msg[i].Rcode = 3
    /\ result[i] = OKResult
    /\ detail[i].RCode = "NXDOMAIN"

\* C13: on an ok outcome the response-code text is never empty; the codes
\* 0..5 read NOERROR, FORMERR, SERVFAIL, NXDOMAIN, NOTIMP, REFUSED and any
\* other code n reads "UNKNOWN(n)".
C13_RCodeTextTotal ==
  \A i \in Workers :
    result[i] = OKResult =>
      LET n == msg[i].Rcode
          text == detail[i].RCode
      IN /\ text # ""
         /\ n = 0 => text = "NOERROR"
         /\ n = 1 => text = "FORMERR"
         /\ n = 2 => text = "SERVFAIL"
         /\ n = 3 => text = "NXDOMAIN"
         /\ n = 4 => text = "NOTIMP"
         /\ n = 5 => text = "REFUSED"
         /\ n = 6 => text = "UNKNOWN(6)"
         /\ n \notin 0 .. 5 => text = "UNKNOWN(" \o ToString(n) \o ")"

\* C13 witness: an ok outcome for a response with code 6.
C13_Witness ==
  \E i \in Workers :
    /\ result[i] = OKResult
    /\ msg[i].Rcode = 6
    /\ detail[i].RCode = "UNKNOWN(6)"

C15_NoWriteAfterReturn ==
  [][ mpc = "returned" =>
        /\ results' = results
        /\ \A i \in Workers : pc[i] = "finished" /\ pc'[i] = "finished"
    ]_vars

\* C15 witness: RunQueries has returned the context_cancelled outcome of a
\* target whose abandoned exchange is still running.
C15_Witness ==
  \E i \in Workers :
    /\ mpc = "returned"
    /\ orphans[i] > 0
    /\ servers[i] \in DOMAIN results
    /\ results[servers[i]] = ErrorResult("context_cancelled")
    /\ Len(servers) = 2

\* C16: every insertion overwrites the entry of its target with the
\* inserting worker's outcome and changes no other entry, so the entry of a
\* target supplied more than once is the outcome inserted last; the map
\* never holds more entries than distinct targets and at return it holds
\* exactly one per distinct target.
C16_LastInsertionWins ==
  [][ /\ \A i \in Workers :
           (pc[i] = "write" /\ pc'[i] # "write") =>
             /\ DOMAIN results' = DOMAIN results \cup {servers[i]}
             /\ results'[servers[i]] = result[i]
             /\ \A t \in DOMAIN results \ {servers[i]} :
                  results'[t] = results[t]
      /\ Cardinality(DOMAIN results') <=
           Cardinality({ servers[i] : i \in Workers })
      /\ mpc' = "returned" =>
           Cardinality(DOMAIN results') =
             Cardinality({ servers[i] : i \in Workers })
    ]_vars

\* C16 witness: the same target twice with different outcomes; the task
\* dispatched first inserted last and its outcome is the one returned.
C16_Witness ==
  /\ Len(servers) = 2
  /\ servers[1] = servers[2]
  /\ mpc = "returned"
  /\ result[1] = ErrorResult("query_failed")
  /\ result[2] = OKResult
  /\ results = (servers[1] :> result[1])

\* C17: the outcome QueryServer returns, whichever return it takes
\* (invalid_qtype, context_cancelled, query_failed, no_response, ok), has the
\* tags of its server and comes with the server's target string as key, which
\* is the key it is stored under.
C17_TagsAndKeyPassThrough ==
  \A i \in Workers :
    /\ Returned(i) =>
         /\ result[i].class \in { "invalid_qtype", "context_cancelled",
                                  "query_failed", "no_response", "" }
         /\ detail[i].Tags = tags[i]
         /\ detail[i].Target = servers[i]
    /\ pc[i] \in {"release", "wgdone", "finished"} =>
         DOMAIN results = { servers[i] }

\* C17 witness: a server with two tags, its outcome no_response, stored.
C17_Witness ==
  \E i \in Workers :
    /\ tags[i] = << "eu", "primary" >>
    /\ result[i] = ErrorResult("no_response")
    /\ detail[i].Tags = << "eu", "primary" >>
    /\ pc[i] = "finished"
    /\ servers[i] \in DOMAIN results

\* C18: a returned outcome is ok or error; ok comes with an empty error
\* message, error with a non-empty one and with neither response code nor
\* answers.
C18_ErrorIffMessage ==
  \A i \in Workers :
    Returned(i) =>
      /\ result[i].status \in {"ok", "error"}
      /\ result[i].status = "ok" => detail[i].Error = ""
      /\ result[i].status = "error" =>
           /\ detail[i].Error # ""
           /\ detail[i].RCode = ""
           /\ detail[i].Answers = << >>

\* C18 witness: the empty record type, whose error message ends where the
\* type would stand.
C18_Witness ==
  \E i \in Workers :
    /\ qtype = ""
    /\ result[i] = ErrorResult("invalid_qtype")
    /\ detail[i].Error = "unsupported query type: "

C20_NormalizeIdempotent ==
  /\ cfgTarget # "" => ppc \notin { "rejected", "invalid" }
  /\ (cfgTarget # "" /\ reqTarget # "") => reqTarget = cfgTarget
  /\ reqTarget # "" =>
       /\ Target(reqTarget) = [err |-> "", value |-> reqTarget]
       /\ \E s \in SupportedSchemes : HasPrefix(reqTarget, s \o "://")
  /\ ppc # "invalid"

\* C20 witness: a configured tls target with an IPv6 host and no port was
\* given the default port, then normalized again and enqueued as it was.
C20_Witness ==
  /\ ppc = "enqueued"
  /\ raw = "tls://[2620:fe::fe]"
  /\ cfgTarget = "tls://[2620:fe::fe]:853"
  /\ reqTarget = "tls://[2620:fe::fe]:853"

\* ---------------------------------------------------------------------- C21
\* The scheme of a target string: the text before its first "://", and
\* whether that is missing or none of the supported transports.
NoSupportedScheme(s) ==
  \/ SchemeSep(s) = 0
  \/ SubSeq(s, 1, SchemeSep(s) - 1) \notin SupportedSchemes

\* C21: a target string whose scheme is missing or is not a supported
\* transport never yields a target: the configuration skips it, the API
\* answers 400 without enqueueing, the command line reports an invalid
\* address, and no normalized target is ever stored for it.
C21_UnsupportedSchemeRejected ==
  NoSupportedScheme(raw) =>
    /\ Target(raw).err # "" /\ Target(raw).value = ""
    /\ cfgTarget = "" /\ reqTarget = ""
    /\ ppc \in {"raw", "labelled", "skipped", "rejected", "cli_invalid"}

C21_Witness ==
  /\ ppc = "cli_invalid"
  /\ SchemeSep(raw) # 0
  /\ NoSupportedScheme(raw)
  /\ Target(raw).err = "UnsupportedScheme"

\* ---------------------------------------------------------------------- C22
\* C22: on an ok outcome the answers list has one entry per record of the
\* response's answer section, in the order of the section (names and types
\* agree position by position), and a record of a type without a case of its
\* own has an entry whose value is the record's presentation form.
C22_NoAnswerDropped ==
  \A i \in Workers :
    ( Returned(i) /\ result[i] = OKResult )
    => /\ Len(detail[i].Answers) = Len(msg[i].Answer)
       /\ \A k \in 1 .. Len(msg[i].Answer) :
            /\ detail[i].Answers[k].Name = TrimDot(msg[i].Answer[k].Name)
            /\ detail[i].Answers[k].Type = msg[i].Answer[k].Rrtype
            /\ msg[i].Answer[k].Rrtype \notin {"A", "CNAME"}
                 => /\ detail[i].Answers[k].Value = rrString(msg[i].Answer[k])
                    /\ detail[i].Answers[k].Value # ""

\* C22 witness: a CNAME followed by an HINFO record, decoded to two entries.
C22_Witness ==
  \E i \in Workers :
    /\ Returned(i) /\ result[i] = OKResult
    /\ msg[i].Answer = << rrCNAME, rrHINFO >>
    /\ Len(detail[i].Answers) = 2
    /\ detail[i].Answers[2].Type = "HINFO"

\* ---------------------------------------------------------------------- C28
\* The index of the first attempt of worker i that handed over a response
\* without error, 0 when there is none.
FirstOk(i) ==
  LET at == { k \in 1 .. Len(hist[i]) : hist[i][k] = "ok" }
  IN IF at = {} THEN 0 ELSE CHOOSE k \in at : \A j \in at : k <= j

\* C28 as stated, for a known record type: a returned QueryServer call has
\* made as many attempts as the index of its first successful attempt, or
\* `retries` attempts when no attempt succeeded, and a success is returned
\* as ok.
C28_AttemptsFirstOkOrRetries ==
  \A i \in Workers :
    (Returned(i) /\ RecognizedQType) =>
      IF FirstOk(i) # 0
        THEN Len(hist[i]) = FirstOk(i) /\ result[i] = OKResult
        ELSE Len(hist[i]) = retries

\* C28: no attempt follows an attempt that returned a response without
\* error (such an attempt is the last one and QueryServer goes on to the
\* return, with no delay and no exchange left to start), the returned outcome
\* is ok and built from that response, and a call in which no attempt
\* succeeded has made `retries` attempts provided the record type is known
\* and the context is not cancelled.
C28_StopsAtFirstSuccess ==
  \A i \in Workers :
    /\ FirstOk(i) # 0 =>
         /\ FirstOk(i) = Len(hist[i])
         /\ pc[i] \notin {"loop", "perform", "await", "sleep"}
         /\ exch[i] = "none"
         /\ delays[i] = Len(hist[i]) - 1
    /\ Returned(i) =>
         IF FirstOk(i) # 0
           THEN /\ result[i] = OKResult
                /\ detail[i].RCode = RCodeText(msg[i].Rcode)
                /\ detail[i].Answers = decodeAnswers(msg[i].Answer)
           ELSE (RecognizedQType /\ ~cancelled) => Len(hist[i]) = retries

\* C28 witness: with three attempts allowed the second one succeeds with
\* SERVFAIL and an HINFO answer, and QueryServer has returned after two.
C28_Witness ==
  \E i \in Workers :
    /\ Returned(i)
    /\ retries = 3
    /\ hist[i] = << "err", "ok" >>
    /\ msg[i] = [Rcode |-> 2, Answer |-> << rrCNAME, rrHINFO >>]
    /\ detail[i].RCode = "SERVFAIL"

\* ---------------------------------------------------------------------- C23
\* A step in which processDNSLookup answers a lookup submission.
LookupStep ==
  /\ reply'.op = "lookup"
  /\ << req, reply, queue >>' # << req, reply, queue >>

\* The submission handled in this step has an empty target list: no server
\* in the request and none from the configuration.
EmptyTargetList ==
  req'.servers = << >> /\ ConfigTargets[cfgServers] = << >>

\* C23 as stated: a lookup submission with an empty target list is answered
\* with 400 and no task is enqueued.
C23_EmptyListIs400 ==
  [][ (LookupStep /\ EmptyTargetList)
        => reply'.code = 400 /\ queue' = queue ]_vars

\* C23: a lookup submission with an empty target list enqueues no task and
\* is answered with 400, or with 503 when the task client is the Asynq one
\* and the request passed validation (the worker check comes first).
C23_EmptyListRejected ==
  [][ (LookupStep /\ EmptyTargetList)
        => /\ queue' = queue
           /\ reply'.code \in {400, 503}
           /\ reply'.code = 503 =>
                /\ mode = "asynq"
                /\ req'.valid
                /\ reply'.status = "no workers available"
           /\ (mode = "memory" /\ req'.valid) =>
                reply'.status = "no DNS server" ]_vars

\* C23 witness: a valid request without servers, no configured target, the
\* answer 400 for the missing servers and nothing enqueued.
C23_Witness ==
  /\ reply = [op |-> "lookup", code |-> 400, status |-> "no DNS server"]
  /\ req = [valid |-> TRUE, servers |-> << >>]
  /\ ConfigTargets[cfgServers] = << >>
  /\ queue = << >>

\* ---------------------------------------------------------------------- C24
\* A step in which handleHealthCheck answers.
HealthStep == reply'.op = "health" /\ reply' # reply

\* C24 as stated: with the Asynq client and no worker connected a lookup
\* submission is answered with 503.
C24_NoWorkerIs503 ==
  [][ (LookupStep /\ mode = "asynq" /\ nworkers = 0)
        => reply'.code = 503 /\ queue' = queue ]_vars

\* C24: with the Asynq client and no worker connected, a lookup submission
\* enqueues no task and is answered with 503 when it passes validation (400
\* when it does not), and the health endpoint answers degraded; with the
\* in-memory client no worker is ever connected, yet no answer is 503.
C24_NoWorkerRejected ==
  [][ /\ (LookupStep /\ mode = "asynq" /\ nworkers = 0)
        => /\ queue' = queue
           /\ reply'.code = IF req'.valid THEN 503 ELSE 400
      /\ (HealthStep /\ mode = "asynq" /\ nworkers = 0)
        => reply' = [op |-> "health", code |-> 503, status |-> "degraded"]
      /\ mode = "memory"
        => /\ nworkers = 0
           /\ reply'.code # 503
           /\ HealthStep => reply'.status = "ok" ]_vars

\* C24 witness: the Asynq client without a worker has refused a valid
\* request that names a server.
C24_Witness ==
  /\ mode = "asynq"
  /\ nworkers = 0
  /\ queue = << >>
  /\ req = [valid |-> TRUE, servers |-> << "udp://9.9.9.9" >>]
  /\ reply = [op |-> "lookup", code |-> 503, status |-> "no workers available"]

\* ---------------------------------------------------------------------- C26
\* The port GetDNSTargets writes for a service of a server.
TargetPort(sv, scheme) ==
  IF sv.Port = 0 THEN ProtocolConfigs[scheme].DefaultPort ELSE sv.Port

\* The server offers plain DNS over UDP or TCP.
OffersDo53(sv) ==
  \E k \in 1 .. Len(sv.Services) : sv.Services[k] \in {"do53/udp", "do53/tcp"}

\* C26: a configured server that offers do53/udp or do53/tcp without an IP
\* does not pass validation (the server command ends at LoadConfig); every
\* udp:// or tcp:// target GetDNSTargets lists for a server is made of the
\* server's IP, never of its hostname; and a valid server that offers plain
\* DNS gets its target.
C26_PlainTargetsUseIP ==
  \A n \in 1 .. Len(cfgServers) :
    LET sv == cfgServers[n]
        listed == ConfigTargets[<< sv >>]
        Plain(scheme) ==
          scheme \o "://" \o sv.IP \o ":" \o ToString(TargetPort(sv, scheme))
    IN /\ (OffersDo53(sv) /\ sv.IP = "") =>
            /\ DNSServer_Validate(sv) # ""
            /\ spc \in {"load", "exit"}
       /\ \A k \in 1 .. Len(listed) :
            \A scheme \in {"udp", "tcp"} :
              HasPrefix(listed[k], scheme \o "://") =>
                /\ sv.IP # ""
                /\ listed[k] = Plain(scheme)
                /\ listed[k] # scheme \o "://" \o sv.Hostname \o ":" \o
                                ToString(TargetPort(sv, scheme))
       /\ DNSServer_Validate(sv) = "" =>
            \A k \in 1 .. Len(sv.Services) :
              sv.Services[k] \in {"do53/udp", "do53/tcp"} =>
                \E j \in 1 .. Len(listed) :
                  listed[j] = Plain(serviceToScheme[sv.Services[k]])

\* C26 witness: a server with IP and hostname that offers do53/tcp and doh is
\* queried at its IP over TCP and at its hostname over HTTPS.
C26_Witness ==
  /\ spc = "serving"
  /\ cfgServers = << PlainServer >>
  /\ req.servers = << >>
  /\ queue = << << "tcp://9.9.9.9:53", "https://dns.quad9.net:443" >> >>

\* ---------------------------------------------------------------------- C27
\* C27 as stated: when --rate-limit-rps 0 was given, the configured rate is 0
\* after the flag overrides and NewServer installs no rate limiter.
C27_ZeroDisablesRateLimit ==
  (flagRps = [changed |-> TRUE, value |-> 0] /\ spc \in {"new", "serving"})
    => /\ cfgRps = 0
       /\ spc = "serving" => ~limiter

\* ---------------------------------------------------------------------- C29
\* C29 as stated, for the in-memory client: GetTaskStatus answers not found
\* (404) for an ID that was never enqueued; for an enqueued ID it answers
\* PENDING or SUCCESS, SUCCESS with the results a finished goroutine of that
\* ID stored; and once it has answered SUCCESS for an ID, every later answer
\* for that ID is the same SUCCESS.
C29_StatusNeverGoesBack ==
  [][ \A id \in PollIDs :
        seen'[id] # seen[id] =>
          /\ id \notin ttl => seen'[id] = NotFound
          /\ id \in ttl => seen'[id].status \in {"PENDING", "SUCCESS"}
          /\ seen'[id].status = "SUCCESS" =>
               \E g \in 1 .. Len(gor) :
                 /\ gor[g].id = id
                 /\ gor[g].pc = "done"
                 /\ seen'[id].result = LookupResults(gor[g].results)
          /\ seen[id].status = "SUCCESS" => seen'[id] = seen[id] ]_vars

\* ---------------------------------------------------------------------- C30
\* C30: every task ID the in-memory client has enqueued eventually has the
\* status SUCCESS, given that the scheduler runs the task goroutines and
\* their RunQueries calls return; EnqueueDNSLookup returns while the task is
\* still PENDING with its goroutine not yet run; and no result is
\* context_cancelled, whether or not the submitting request's context has
\* ended.
C30_EveryTaskSucceeds ==
  /\ \A id \in PollIDs :
       (id \in ttl) ~> (memoryClient_GetTaskStatus(id).status = "SUCCESS")
  /\ [][ Len(gor') = Len(gor) + 1 =>
           /\ gor'[Len(gor')].pc = "start"
           /\ gor'[Len(gor')].id \in ttl'
           /\ ~mtasks'[gor'[Len(gor')].id].set ]_vars
  /\ [](\A g \in 1 .. Len(gor) :
          \A k \in 1 .. Len(gor[g].results) :
            gor[g].results[k].Status # "cancelled")

\* C30 witness: a task whose request context ended before its fan-out has
\* its results stored, all ok, and the status SUCCESS.
C30_Witness ==
  \E g \in 1 .. Len(gor) :
    /\ gor[g].ctxDone
    /\ gor[g].pc = "done"
    /\ gor[g].results[1].Status = "ok"
    /\ memoryClient_GetTaskStatus(gor[g].id) =
         Success(LookupResults(gor[g].results))

\* ---------------------------------------------------------------------- C25
\* The worker has finished handling the task and stored its result.
FinishedAndStored(id) ==
  /\ astate[id] = "deleted"
  /\ id \in written \/ TaskMetaKey(id) \in DOMAIN redis

\* C25 as stated: once a worker has finished handling a task and stored its
\* result, Client.GetTaskStatus answers SUCCESS with that task's result.
C25_FinishedTaskIsSuccess ==
  [][ \A id \in AsynqIDs :
        (astatus'[id] # astatus[id] /\ FinishedAndStored(id))
          => /\ astatus'[id].status = "SUCCESS"
             /\ astatus'[id].result = TaskMeta(id) ]_vars

\* ---------------------------------------------------------------------- C31
\* The server list of a submission: the request's, or the configured targets
\* when the request names none.
ServerList(r) ==
  IF r.servers = << >> THEN ConfigTargets[cfgServers] ELSE r.servers

\* C31 as stated: a lookup submission whose server list is longer than the
\* configured maximum is answered with 400 and no task is enqueued.
C31_TooManyIs400 ==
  [][ (LookupStep /\ Len(ServerList(req')) >
                       GetMaxServersPerRequest(cfgMaxServers))
        => reply'.code = 400 /\ queue' = queue ]_vars

\* C31: a lookup submission whose server list, explicit or configured, is
\* longer than the configured maximum enqueues no task and is answered with
\* 400, or with 503 when the worker check that comes first fails; once the
\* request is valid and the worker check passed, the answer is the one of the
\* length check. A list of exactly the maximum length is not refused for its
\* length, and is enqueued when no other check refuses it.
C31_TooManyRejected ==
  [][ LookupStep =>
        LET n == Len(ServerList(req'))
            max == GetMaxServersPerRequest(cfgMaxServers)
        IN /\ n > max =>
                /\ queue' = queue
                /\ reply'.code \in {400, 503}
                /\ reply'.code = 503 =>
                     /\ mode = "asynq"
                     /\ req'.valid
                     /\ reply'.status = "no workers available"
                /\ (req'.valid /\ reply'.code = 400) =>
                     reply'.status = "too many DNS servers"
           /\ n = max =>
                /\ reply'.status # "too many DNS servers"
                /\ reply'.status \notin { "invalid request", "invalid target",
                                          "no workers available",
                                          "enqueue failed" }
                     => /\ reply'.code = 200
                        /\ Len(queue') = Len(queue) + 1
                        /\ Len(queue'[Len(queue')]) = max ]_vars

\* C31 witness: two servers in a valid request against a maximum of one, the
\* answer of the length check and nothing enqueued.
C31_Witness ==
  /\ GetMaxServersPerRequest(cfgMaxServers) = 1
  /\ req.valid
  /\ Len(req.servers) = 2
  /\ reply = [op |-> "lookup", code |-> 400, status |-> "too many DNS servers"]
  /\ queue = << >>

\* ---------------------------------------------------------------------- C32
\* Some target of the server list fails normalization.
SomeTargetInvalid(list) ==
  \E k \in 1 .. Len(list) : Normalized[list[k]].err # ""

\* The target is in normalized form: the normalizer accepts it and leaves it
\* as it is.
IsNormalized(t) == Target(t).err = "" /\ Target(t).value = t

\* C32 as stated: a submission with a target that fails normalization is
\* answered with 400 and nothing is enqueued.
C32_InvalidTargetIs400 ==
  [][ (LookupStep /\ SomeTargetInvalid(ServerList(req')))
        => reply'.code = 400 /\ queue' = queue ]_vars

\* C32: a submission with a target that fails normalization enqueues nothing
\* and is answered with 400, or with 503 when the worker check that comes
\* first fails; when only normalization refuses it the answer is the
\* normalizer's error. Every target of every enqueued task is in normalized
\* form.
C32_AllOrNothing ==
  /\ [][ (LookupStep /\ SomeTargetInvalid(ServerList(req')))
           => /\ queue' = queue
              /\ reply'.code \in {400, 503}
              /\ reply'.code = 503 =>
                   /\ mode = "asynq"
                   /\ req'.valid
                   /\ reply'.status = "no workers available"
              /\ ( /\ req'.valid
                   /\ reply'.code = 400
                   /\ Len(ServerList(req')) <=
                        GetMaxServersPerRequest(cfgMaxServers) )
                   => reply'.status = "invalid target" ]_vars
  /\ [](\A q \in 1 .. Len(queue) :
          \A k \in 1 .. Len(queue[q]) : IsNormalized(queue[q][k]))

\* C32 witness: a request with a good target and one that fails
\* normalization is refused whole.
C32_Witness ==
  /\ req = [valid |-> TRUE, servers |-> << "udp://9.9.9.9", "h3://9.9.9.9" >>]
  /\ reply = [op |-> "lookup", code |-> 400, status |-> "invalid target"]
  /\ queue = << >>

\* ---------------------------------------------------------------------- C33
\* The answer Client.GetTaskStatus gave for the task, in the state it was
\* asked in (a poll changes neither the cache nor the queue).
Polled(id) == astatus[id].status # ""

\* The cached result of the task exists and decodes.
CachedResult(id) ==
  ResultKey(id) \in DOMAIN redis /\ Unmarshals(redis[ResultKey(id)])

HoldsSlot(i) == pc[i] \notin {"idle", "wgdone", "finished"}

\* C35: the number of tokens in the pool is the number of workers started
\* and not yet through their deferred release, whatever QueryServer returned
\* to them; every worker through it has given back the one token taken for
\* it; the wait group counts the workers not yet finished, so that when
\* RunQueries returns every worker has finished and the pool is empty.
C35_SlotsBalanced ==
  /\ pool = Cardinality({ i \in Workers : HoldsSlot(i) })
  /\ wg = Cardinality({ i \in Workers : pc[i] \notin {"idle", "finished"} })
            + (IF mpc = "send" THEN 1 ELSE 0)
  /\ mpc = "returned" =>
       /\ pool = 0
       /\ \A i \in Workers : pc[i] = "finished"

\* C35 witness: the first worker has finished after a cancellation and gave
\* its token back, the second still holds its own.
C35_Witness ==
  /\ Len(servers) = 2
  /\ pc[1] = "finished"
  /\ result[1].status = "error"
  /\ cancelled
  /\ HoldsSlot(2)
  /\ pool = 1

\* ---------------------------------------------------------------------- C36
\* C36: the ceiling GetMaxConcurrentQueries hands to RunQueries is at least
\* 1 whatever the configuration holds, and with it RunQueries returns for
\* every target list once every exchange returns.
C36_Terminates ==
  /\ [](maxConc >= 1)
  /\ <>(mpc = "returned")

\* C36 witness: RunQueries has returned two results under the default
\* ceiling, after an exchange that had to return for it.
C36_Witness ==
  /\ maxConc = DefaultMaxConcurrentQueries
  /\ Len(servers) = 2
  /\ mpc = "returned"
  /\ ~cancelled
  /\ \E i \in Workers : result[i].status = "ok"

\* ---------------------------------------------------------------------- C37
\* C37: with a recognized record type and a retry count <= 0, QueryServer
\* makes no attempt, cancelled or not, and returns status error, counted as
\* no_response, with the message 'no response received'.
C37_NoRetriesNoResponse ==
  \A i \in Workers :
    (RecognizedQType /\ retries <= 0) =>
      /\ hist[i] = << >>
      /\ ExchangesInFlight(i) = 0
      /\ pc[i] \notin {"perform", "await", "post", "sleep"}
      /\ result[i] \notin { OKResult, ErrorResult("query_failed") }
      /\ Returned(i) =>
           /\ result[i] = ErrorResult("no_response")
           /\ detail[i].Error = "no response received"

\* C37 witness: QueryServer has returned no_response for a negative retry
\* count and a cancelled context.
C37_Witness ==
  /\ RecognizedQType
  /\ retries = -1
  /\ cancelled
  /\ Returned(1)
  /\ result[1] = ErrorResult("no_response")
  /\ pc[1] = "finished"

\* ---------------------------------------------------------------------- C38
\* C38 as stated: the ID an EnqueueDNSLookup call of the in-memory client
\* returns differs from the IDs of all earlier calls, and no step resets or
\* replaces the stored result of a task.
C38_FreshTaskID ==
  [][ /\ Len(gor') > Len(gor) =>
           \A g \in 1 .. Len(gor) : gor[g].id # gor'[Len(gor')].id
      /\ \A id \in ttl :
           mtasks[id].set => mtasks'[id] = mtasks[id] ]_vars

\* ---------------------------------------------------------------------- C39
\* C39: the result channel of a performQuery call never holds more than the
\* one result its exchange goroutine sends, and an exchange goroutine that
\* performQuery abandoned on cancellation ends once its exchange returns,
\* also after RunQueries itself has returned.
C39_AbandonedExchangeEnds ==
  /\ [](\A i \in Workers : Len(resultCh[i]) <= ResultChCap)
  /\ \A i \in 1 .. MaxTargets :
       (i \in Workers /\ orphans[i] > 0) ~> (i \in Workers /\ orphans[i] = 0)

\* C39 witness: RunQueries has returned while an exchange goroutine
\* abandoned on cancellation is still running.
C39_Witness ==
  /\ Len(servers) = 1
  /\ mpc = "returned"
  /\ cancelled
  /\ pc[1] = "finished"
  /\ hist[1] = << "cancelled" >>
  /\ orphans[1] = 1

\* ---------------------------------------------------------------------- C34
\* The poll answer ends the loop: the status call failed, or the status is
\* SUCCESS or FAILURE.
EndsLoop(a) == a.err \/ a.status \in { "SUCCESS", "FAILURE" }

\* C34: the poll loop of runDNSTest has exited exactly when the last poll
\* failed or returned SUCCESS or FAILURE; no earlier poll did; every other
\* answer was followed by one sleep and another poll, however many polls
\* there have been; the command returns nil only after SUCCESS or FAILURE.
C34_PollLoopExit ==
  LET n == Len(answers) IN
    /\ \A k \in 1 .. n - 1 : ~EndsLoop(answers[k])
    /\ n > 0 =>
         /\ EndsLoop(answers[n]) <=> cpc \in { "exit_nil", "exit_error" }
         /\ answers[n].err <=> cpc = "exit_error"
         /\ ~EndsLoop(answers[n]) =>
              \/ cpc = "sleep" /\ sleeps = n - 1
              \/ cpc = "poll" /\ sleeps = n
    /\ cpc = "exit_nil" =>
         n > 0 /\ answers[n].status \in { "SUCCESS", "FAILURE" }

\* C34 witness: the command has returned after a third poll that answered
\* FAILURE, with a sleep after each of the two polls before.
C34_Witness ==
  /\ cpc = "exit_nil"
  /\ Len(answers) = 3
  /\ answers[1].status = "PENDING"
  /\ answers[2].status = "UNKNOWN"
  /\ answers[3].status = "FAILURE"
  /\ sleeps = 2

====
